---- MODULE Spec2Model ----
(***************************************************************************)
(* Model of the webaverse Blender plug-in's export back end:               *)
(*   io_scene_webaverse/io/exp/gltf2_io_export.py   save_gltf              *)
(* One export call is a small sequential program; every statement that    *)
(* touches the file system, the network or the browser is one step.       *)
(*                                                                         *)
(* Representation.                                                         *)
(*  - a Python str is a sequence of one-character strings, a bytes object  *)
(*    a sequence of integers 0..255; str.encode() maps one to the other.   *)
(*  - a Python int is kept as two 16-bit limbs [hi, lo] (value hi*2^16+lo) *)
(*    so that lengths of 2^32 and more, which struct.pack("I", ..)         *)
(*    refuses, can be reached by the checker.                              *)
(*  - a bytes object is [data, bulk]: the bytes `data`, followed by `bulk` *)
(*    further blocks of 2^16 bytes whose values are not tracked.  Only the *)
(*    over-long buffer has bulk > 0.                                       *)
(***************************************************************************)
EXTENDS Integers, Sequences, FiniteSets, TLC

VARIABLES
    pc,               \* position of save_gltf
    exc,              \* exception that left save_gltf, or "none"
    gltf,             \* argument gltf: the Document Tree, items in insertion order
    export_settings,  \* argument export_settings
    glb_buffer,       \* argument glb_buffer: the Binary Buffer
    byteorder,        \* sys.byteorder of the host: struct.pack("I") is native
    gltf_encoded,     \* local gltf_encoded (str)
    lens,             \* locals length_gltf, spaces_gltf, length_bin, zeros_bin, length
    file,             \* local file: the file object and its write() calls
    disk,             \* the two paths save_gltf writes: their content, or NoFile
    data,             \* local data: the bytes read back for the upload
    requests,         \* the requests the call has POSTed to the upload endpoint, in order
    response,         \* local r: the endpoint's answer
    hash,             \* local hash
    browser,          \* the URLs the call has handed to webbrowser.open, in order
    result,           \* save_gltf's return value, or "none"
    previous,         \* what the preceding call of a second call left on the disk
    operator,         \* the entry point this run is in
    vrm,              \* ExportVRM.execute: self.filepath, what GlbObj() and
                      \* convert_bpy2glb() give
    addons,           \* preferences.addons, in the host's enumeration order
    hooks,            \* ExportGLTF2_Base.execute: the position of its loop over
                      \* the add-ons and the three lists it builds
    self,             \* the properties of the ExportGLTF2_Base operator
    extension_panel_unregister_functors,  \* the module-level list of line 85
    imp,              \* ImportGLTF2.import_gltf2: self.files, the position of
                      \* its loop and its local ret
    calls             \* the calls made so far of the operator's methods, in
                      \* order, each with what it was given and what it gave

\* the state on Blender's side of save_gltf
blender == <<operator, vrm, addons, hooks, self, extension_panel_unregister_functors,
             imp, calls>>

vars == <<pc, exc, gltf, export_settings, glb_buffer, byteorder, gltf_encoded,
          lens, file, disk, data, requests, response, hash, browser, result,
          previous, blender>>

-----------------------------------------------------------------------------
(* Bounds of the checked instance *)

\* most top-level keys of a Document Tree
MaxKeys == 2
\* longest Binary Buffer that is given byte by byte
MaxBin == 7
\* most add-ons enabled in the host
MaxAddons == 2
\* most calls of check on one operator
MaxChecks == 2
\* most invocations of the export operator in one session of the host
MaxInvocations == 2
\* most files selected for one import
MaxFiles == 3

-----------------------------------------------------------------------------
(* Python values *)

Base == 256 * 256

\* int(n) for a small natural n
PyInt(n) == [hi |-> n \div Base, lo |-> n % Base]

\* a + b
PyAdd(a, b) ==
    LET s == a.lo + b.lo
    IN  [hi |-> a.hi + b.hi + (s \div Base), lo |-> s % Base]

\* a > 0
PyPositive(a) == a.hi > 0 \/ a.lo > 0

RECURSIVE BitAnd(_, _)
\* a & b on naturals
BitAnd(a, b) ==
    IF a = 0 \/ b = 0 THEN 0
    ELSE 2 * BitAnd(a \div 2, b \div 2) + ((a % 2) * (b % 2))

\* a & m for a mask m below 2^16
PyAnd(a, m) == BitAnd(a.lo, m)

\* bytes objects
Bytes(s) == [data |-> s, bulk |-> 0]

\* len(b)
PyLen(b) == PyAdd([hi |-> b.bulk, lo |-> 0], PyInt(Len(b.data)))

\* b' ' * n, b'\0' * n
Repeat(byte, n) == [i \in 1..n |-> byte]

-----------------------------------------------------------------------------
(* ASCII *)

Printable ==
    <<" ", "!", "\"", "#", "$", "%", "&", "'", "(", ")", "*", "+", ",", "-", ".", "/",
      "0", "1", "2", "3", "4", "5", "6", "7", "8", "9", ":", ";", "<", "=", ">", "?",
      "@", "A", "B", "C", "D", "E", "F", "G", "H", "I", "J", "K", "L", "M", "N", "O",
      "P", "Q", "R", "S", "T", "U", "V", "W", "X", "Y", "Z", "[", "\\", "]", "^", "_",
      "grave", "a", "b", "c", "d", "e", "f", "g", "h", "i", "j", "k", "l", "m", "n", "o",
      "p", "q", "r", "s", "t", "u", "v", "w", "x", "y", "z", "{", "|", "}", "~">>

\* the code points of the characters json.dumps can emit (ensure_ascii is on)
CodePoint ==
    [c \in {Printable[i] : i \in 1..Len(Printable)} \cup {"\n"} |->
        IF c = "\n" THEN 10
        ELSE 31 + (CHOOSE i \in 1..Len(Printable) : Printable[i] = c)]

\* ord(c)
Ord(c) == CodePoint[c]

\* str.encode(): UTF-8 of an ASCII string
Encode(s) == [i \in 1..Len(s) |-> Ord(s[i])]

\* the literals of the source, as str
Chars(name) ==
    CASE name = "asset" -> <<"a", "s", "s", "e", "t">>
      [] name = "extensionsUsed" ->
            <<"e", "x", "t", "e", "n", "s", "i", "o", "n", "s", "U", "s", "e", "d">>
      [] name = "extensionsRequired" ->
            <<"e", "x", "t", "e", "n", "s", "i", "o", "n", "s",
              "R", "e", "q", "u", "i", "r", "e", "d">>
      [] name = "extensions" -> <<"e", "x", "t", "e", "n", "s", "i", "o", "n", "s">>
      [] name = "extras" -> <<"e", "x", "t", "r", "a", "s">>
      [] name = "scene" -> <<"s", "c", "e", "n", "e">>
      [] name = "scenes" -> <<"s", "c", "e", "n", "e", "s">>
      [] name = "nodes" -> <<"n", "o", "d", "e", "s">>
      [] name = "cameras" -> <<"c", "a", "m", "e", "r", "a", "s">>
      [] name = "animations" -> <<"a", "n", "i", "m", "a", "t", "i", "o", "n", "s">>
      [] name = "materials" -> <<"m", "a", "t", "e", "r", "i", "a", "l", "s">>
      [] name = "meshes" -> <<"m", "e", "s", "h", "e", "s">>
      [] name = "textures" -> <<"t", "e", "x", "t", "u", "r", "e", "s">>
      [] name = "images" -> <<"i", "m", "a", "g", "e", "s">>
      [] name = "skins" -> <<"s", "k", "i", "n", "s">>
      [] name = "accessors" -> <<"a", "c", "c", "e", "s", "s", "o", "r", "s">>
      [] name = "bufferViews" -> <<"b", "u", "f", "f", "e", "r", "V", "i", "e", "w", "s">>
      [] name = "samplers" -> <<"s", "a", "m", "p", "l", "e", "r", "s">>
      [] name = "buffers" -> <<"b", "u", "f", "f", "e", "r", "s">>
      [] name = "byteLength" -> <<"b", "y", "t", "e", "L", "e", "n", "g", "t", "h">>
      [] name = "thumbnail" -> <<"t", "h", "u", "m", "b", "n", "a", "i", "l">>
      [] name = "glTF" -> <<"g", "l", "T", "F">>
      [] name = "JSON" -> <<"J", "S", "O", "N">>
      [] name = "BIN" -> <<"B", "I", "N">>

-----------------------------------------------------------------------------
(* str and os.path (posixpath) *)

\* str.lower() of an ASCII string
Lower(s) ==
    [i \in 1..Len(s) |-> IF Ord(s[i]) \in 65..90 THEN Printable[Ord(s[i]) + 1] ELSE s[i]]

\* s.rfind(c), counted from 1: 0 when c is not in s
RFind(s, c) ==
    LET hits == {i \in 1..Len(s) : s[i] = c}
    IN  IF hits = {} THEN 0 ELSE CHOOSE i \in hits : \A j \in hits : j <= i

\* s.startswith(c)
StartsWith(s, c) == s # <<>> /\ s[1] = c

RECURSIVE RStrip(_, _)
\* s.rstrip(c)
RStrip(s, c) ==
    IF s # <<>> /\ s[Len(s)] = c THEN RStrip(SubSeq(s, 1, Len(s) - 1), c) ELSE s

\* os.path.basename(p)
Basename(p) == SubSeq(p, RFind(p, "/") + 1, Len(p))

\* os.path.dirname(p)
Dirname(p) ==
    LET head == SubSeq(p, 1, RFind(p, "/"))
    IN  IF \E i \in 1..Len(head) : head[i] # "/" THEN RStrip(head, "/") ELSE head

\* os.path.splitext(p): <<root, ext>>; the dots a name starts with are not
\* the start of an extension
Splitext(p) ==
    LET sep == RFind(p, "/")
        dot == RFind(p, ".")
    IN  IF dot > sep /\ \E k \in (sep + 1)..(dot - 1) : p[k] # "."
        THEN <<SubSeq(p, 1, dot - 1), SubSeq(p, dot, Len(p))>>
        ELSE <<p, <<>>>>

-----------------------------------------------------------------------------
(* JSON-compatible values and json.dumps *)

JInt(n) == [type |-> "int", val |-> n]
JFloat(r) == [type |-> "float", val |-> r]
JList(items) == [type |-> "list", val |-> items]
JDict(items) == [type |-> "dict", val |-> items]

\* the float values json.dumps refuses under allow_nan=False
NonFinite == {"nan", "inf", "-inf"}

RECURSIVE HasNonFinite(_)
\* a NaN or an infinity anywhere in the value
HasNonFinite(v) ==
    CASE v.type = "float" -> v.val \in NonFinite
      [] v.type = "list" -> \E i \in 1..Len(v.val) : HasNonFinite(v.val[i])
      [] v.type = "dict" -> \E i \in 1..Len(v.val) : HasNonFinite(v.val[i][2])
      [] OTHER -> FALSE

RECURSIVE IntRepr(_)
\* int.__repr__: decimal digits
IntRepr(n) ==
    IF n < 10 THEN <<Printable[17 + n]>>
    ELSE IntRepr(n \div 10) \o <<Printable[17 + (n % 10)]>>

\* the encoder's floatstr: float.__repr__ of a finite float, and the names it
\* gives NaN and the infinities when allow_nan lets them through
FloatRepr(r) ==
    CASE r = "0.5" -> <<"0", ".", "5">>
      [] r = "nan" -> <<"N", "a", "N">>
      [] r = "inf" -> <<"I", "n", "f", "i", "n", "i", "t", "y">>
      [] r = "-inf" -> <<"-", "I", "n", "f", "i", "n", "i", "t", "y">>

\* the encoder's newline_indent at a nesting level; nothing when indent is None
NewlineIndent(indent, level) ==
    IF indent = 0 THEN <<>> ELSE <<"\n">> \o [i \in 1..(indent * level) |-> " "]

RECURSIVE DumpsValue(_, _, _, _)
RECURSIVE DumpsJoin(_, _, _, _, _, _)
\* the items of a list or dict from position i on, joined by the item separator
DumpsJoin(v, i, indent, item_sep, key_sep, level) ==
    IF i > Len(v.val) THEN <<>>
    ELSE (IF i > 1 THEN item_sep \o NewlineIndent(indent, level) ELSE <<>>)
         \o (IF v.type = "dict"
             THEN <<"\"">> \o Chars(v.val[i][1]) \o <<"\"">> \o key_sep
                  \o DumpsValue(v.val[i][2], indent, <<item_sep, key_sep>>, level)
             ELSE DumpsValue(v.val[i], indent, <<item_sep, key_sep>>, level))
         \o DumpsJoin(v, i + 1, indent, item_sep, key_sep, level)

\* json.dumps(v, indent=indent, separators=separators, allow_nan=False) for a
\* value without NaN or infinity; indent 0 stands for indent=None
DumpsValue(v, indent, separators, level) ==
    CASE v.type = "int" -> IntRepr(v.val)
      [] v.type = "float" -> FloatRepr(v.val)
      [] v.type \in {"list", "dict"} ->
            LET open == IF v.type = "list" THEN "[" ELSE "{"
                close == IF v.type = "list" THEN "]" ELSE "}"
            IN  IF Len(v.val) = 0 THEN <<open, close>>
                ELSE <<open>> \o NewlineIndent(indent, level + 1)
                     \o DumpsJoin(v, 1, indent, separators[1], separators[2], level + 1)
                     \o NewlineIndent(indent, level) \o <<close>>

JsonDumps(obj, indent, separators) == DumpsValue(JDict(obj), indent, separators, 0)

-----------------------------------------------------------------------------
(* sorted(gltf.items(), key=lambda item: sort_order.index(item[0])) *)

\* the list with one more name at its end
SortOrderWithThumbnail ==
    <<"asset", "extensionsUsed", "extensionsRequired", "extensions", "extras",
      "scene", "scenes", "nodes", "cameras", "animations", "materials", "meshes",
      "textures", "images", "skins", "accessors", "bufferViews", "samplers",
      "buffers", "thumbnail">>

\* lines 45-65
sort_order ==
    <<"asset", "extensionsUsed", "extensionsRequired", "extensions", "extras",
      "scene", "scenes", "nodes", "cameras", "animations", "materials", "meshes",
      "textures", "images", "skins", "accessors", "bufferViews", "samplers",
      "buffers">>

\* x in list
Contains(list, x) == \E i \in 1..Len(list) : list[i] = x

\* list.index(x), zero-based, for x in list
Index(list, x) == (CHOOSE i \in 1..Len(list) : list[i] = x /\ \A j \in 1..(i - 1) : list[j] # x) - 1

\* the items sorted from the end of sort_order
SortKeyReversed(item) == Len(sort_order) - Index(sort_order, item[1])

\* the sort key of an item of the tree
SortKey(item) == Index(sort_order, item[1])

RECURSIVE InsertSorted(_, _)
\* item placed behind every element whose key is not larger (the sort is stable)
InsertSorted(sorted, item) ==
    IF sorted = <<>> THEN <<item>>
    ELSE IF SortKey(sorted[Len(sorted)]) <= SortKey(item) THEN Append(sorted, item)
    ELSE Append(InsertSorted(SubSeq(sorted, 1, Len(sorted) - 1), item), sorted[Len(sorted)])

RECURSIVE Sorted(_)
Sorted(items) ==
    IF items = <<>> THEN <<>>
    ELSE InsertSorted(Sorted(SubSeq(items, 1, Len(items) - 1)), items[Len(items)])

\* sort_order.index raises ValueError for a key that is not in the list
SortRaises(tree) == \E i \in 1..Len(tree) : ~Contains(sort_order, tree[i][1])

\* allow_nan left on: nothing is refused
DumpsNeverRaises(tree) == FALSE

\* json.dumps raises ValueError for NaN and the infinities
DumpsRaises(tree) == \E i \in 1..Len(tree) : HasNonFinite(tree[i][2])

-----------------------------------------------------------------------------
(* struct.pack("I", v): four bytes in the byte order of the host *)

\* struct.error: 'I' format requires 0 <= number <= 4294967295
PackRaises(v) == v.hi >= Base

LittleEndian(v) == <<v.lo % 256, v.lo \div 256, v.hi % 256, v.hi \div 256>>

\* the four bytes of v, for v below 2^32
StructPackI(v, order) ==
    IF order = "little" THEN LittleEndian(v)
    ELSE [i \in 1..4 |-> LittleEndian(v)[5 - i]]

\* struct.unpack("I", b)[0] on the same host, as a natural number
StructUnpackI(b, order) ==
    IF order = "little" THEN b[1] + 256 * b[2] + Base * (b[3] + 256 * b[4])
    ELSE b[4] + 256 * b[3] + Base * (b[2] + 256 * b[1])

-----------------------------------------------------------------------------
(* The inputs of the checked instance *)

\* the i-th byte of the Binary Buffers of the instance
BinByte(i) == CASE i % 4 = 1 -> 1 [] i % 4 = 2 -> 0 [] i % 4 = 3 -> 255 [] OTHER -> 32

\* a buffer of 2^32 bytes
HugeBuffer == [data |-> <<>>, bulk |-> Base]

Buffers == {Bytes([i \in 1..n |-> BinByte(i)]) : n \in 0..MaxBin} \cup {HugeBuffer}

\* the buffers entry of a tree: [{"byteLength": n}]
BuffersValue(n) == JList(<<JDict(<<<<"byteLength", JInt(n)>>>>)>>)

\* the items a Document Tree of the instance is made of, for a given buffer:
\* valid sections, a section with a NaN or an infinity (at the top or
\* nested), a byteLength that is or is not the buffer's length, and a key
\* that is no glTF section
Items(buffer) ==
    {<<"asset", JInt(2)>>,
     <<"extensionsUsed", JList(<<>>)>>,
     <<"scenes", JList(<<JInt(0)>>)>>,
     <<"extras", JFloat("0.5")>>,
     <<"extras", JFloat("nan")>>,
     <<"extras", JList(<<JFloat("inf")>>)>>,
     <<"thumbnail", JInt(1)>>}
    \cup {<<"buffers", BuffersValue(n)>> :
            n \in {Len(buffer.data) + 1} \cup (IF buffer.bulk = 0 THEN {Len(buffer.data)} ELSE {})}

\* a dict has no key twice
DistinctKeys(tree) == \A i, j \in 1..Len(tree) : i # j => tree[i][1] # tree[j][1]

Trees(buffer) ==
    UNION {{t \in [1..n -> Items(buffer)] : DistinctKeys(t)} : n \in 0..MaxKeys}

Formats == {"GLB", "GLTF_SEPARATE", "GLTF_EMBEDDED"}

\* the paths of an export: gltf_filepath, and gltf_filedirectory + gltf_binaryfilename
MainPath == <<"dir/", "model">>
BinPath == <<"dir/", "model.bin">>
Paths == {MainPath, BinPath}

\* the export settings save_gltf reads; GLB does not go with embedded buffers
Settings ==
    {s \in [gltf_format : Formats, gltf_filepath : {MainPath},
            gltf_filedirectory : {"dir/"}, gltf_binaryfilename : {"model.bin"},
            gltf_embed_buffers : BOOLEAN,
            gltf_binary : {Bytes(<<>>), Bytes(<<9, 8, 7>>)}, timestamp : {1}] :
        s.gltf_format = "GLB" => ~s.gltf_embed_buffers}

NoFile == [exists |-> FALSE, content |-> <<>>]
FileOf(bytes) == [exists |-> TRUE, content |-> bytes]

\* what an earlier export may have left at gltf_filepath
OldContent == <<111, 108, 100>>

NoFileObject == [name |-> <<>>, writes |-> <<>>, closed |-> TRUE]

NoLens == [length_gltf |-> PyInt(0), spaces_gltf |-> 0,
           length_bin |-> PyInt(0), zeros_bin |-> 0, length |-> PyInt(0)]

NoResponse == [status |-> 0, body |-> "none"]

\* what the upload endpoint can answer: a status, and a body that is JSON
\* with the hash field, JSON without it, or not JSON
Responses == [status : {200, 500}, body : {"hash", "no_hash", "not_json"}]

NoPrevious == [ran |-> FALSE, reordered |-> FALSE, disk |-> [p \in Paths |-> NoFile]]

\* export_settings outside a call of save_gltf
NoSettings ==
    [gltf_format |-> "none", gltf_filepath |-> <<>>, gltf_filedirectory |-> "",
     gltf_binaryfilename |-> "", gltf_embed_buffers |-> FALSE,
     gltf_binary |-> Bytes(<<>>), timestamp |-> 0]

\* vrm outside ExportVRM.execute; vrm_bin is <<>> for None and <<b>> for bytes b
NoVrm == [filepath |-> <<>>, glb_obj |-> "none", vrm_bin |-> <<>>]

\* hooks before the loop of execute: the three lists are empty
NoHooks == [next |-> 1, user_extensions |-> <<>>,
            pre_export_callbacks |-> <<>>, post_export_callbacks |-> <<>>]

\* the properties of the export operator the model follows, at their defaults
\* (__init__.py, lines 114-290), with no file path chosen
DefaultProperties ==
    [filepath |-> <<>>, export_format |-> "GLB",
     export_normals |-> TRUE, export_tangents |-> FALSE,
     export_animations |-> TRUE, export_frame_range |-> TRUE,
     export_force_sampling |-> TRUE, export_nla_strips |-> TRUE,
     export_def_bones |-> FALSE, export_skins |-> TRUE,
     export_all_influences |-> FALSE, export_morph |-> TRUE,
     export_morph_normal |-> TRUE, export_morph_tangent |-> FALSE]

\* imp outside import_gltf2; a file is written as what unit_import does with it
NoImport == [files |-> <<>>, filepath |-> "none", next |-> 1, ret |-> "none"]

\* no export or import operator is running
NoOperator ==
    /\ addons = <<>>
    /\ hooks = NoHooks
    /\ self = DefaultProperties
    /\ extension_panel_unregister_functors = <<>>
    /\ imp = NoImport
    /\ calls = <<>>

\* a call of save_gltf
InitSaveGltf ==
    /\ operator = "save_gltf"
    /\ vrm = NoVrm
    /\ NoOperator
    /\ pc = "start"
    /\ exc = "none"
    /\ glb_buffer \in Buffers
    /\ gltf \in Trees(glb_buffer)
    /\ export_settings \in Settings
    /\ export_settings.gltf_format # "GLB" => glb_buffer = Bytes(<<>>)
    /\ byteorder \in {"little", "big"}
    /\ gltf_encoded = <<>>
    /\ lens = NoLens
    /\ file = NoFileObject
    /\ disk \in {[p \in Paths |-> NoFile],
                 [p \in Paths |-> IF p = MainPath THEN FileOf(OldContent) ELSE NoFile]}
    /\ data = <<>>
    /\ requests = <<>>
    /\ response = NoResponse
    /\ hash = "none"
    /\ browser = <<>>
    /\ result = "none"
    /\ previous = NoPrevious

\* the locals of save_gltf outside a call of it
NoCall ==
    /\ exc = "none"
    /\ gltf = <<>>
    /\ export_settings = NoSettings
    /\ glb_buffer = Bytes(<<>>)
    /\ byteorder = "little"
    /\ gltf_encoded = <<>>
    /\ lens = NoLens
    /\ file = NoFileObject
    /\ data = <<>>
    /\ requests = <<>>
    /\ response = NoResponse
    /\ hash = "none"
    /\ browser = <<>>
    /\ result = "none"
    /\ previous = NoPrevious

\* what convert_bpy2glb can return, when it is not None
VrmBins == {<<>>, <<118, 114, 109, 0, 1>>}

\* a call of ExportVRM.execute
InitExportVRM ==
    /\ operator = "ExportVRM.execute"
    /\ vrm \in [filepath : {<<>>, MainPath}, glb_obj : {"GlbObj", "ValidationError"},
                vrm_bin : {<<>>} \cup {<<b>> : b \in VrmBins}]
    /\ NoOperator
    /\ pc = "vrm_start"
    /\ NoCall
    /\ disk \in {[p \in Paths |-> NoFile],
                 [p \in Paths |-> IF p = MainPath THEN FileOf(OldContent) ELSE NoFile]}

Init == InitSaveGltf \/ InitExportVRM

-----------------------------------------------------------------------------
(* File objects.  A file object keeps the arguments of its write() calls,   *)
(* in order; they sit in its buffer until close() (or the object's          *)
(* finalizer, when an exception leaves it open) flushes them to the path.   *)
(* The writes of the instance stay below the buffer size.                   *)

RECURSIVE Flatten(_)
\* the concatenation of a sequence of byte strings
Flatten(ss) == IF ss = <<>> THEN <<>> ELSE ss[1] \o Flatten(Tail(ss))

\* open(path, "w" or "wb"): creates the file or truncates it
Open(path) == [name |-> path, writes |-> <<>>, closed |-> FALSE]
Truncated(d, path) == [d EXCEPT ![path] = FileOf(<<>>)]

\* file.write(bytes)
Write(f, bytes) == [f EXCEPT !.writes = Append(@, bytes)]

\* file.close()
Flushed(d, f) == [d EXCEPT ![f.name] = FileOf(@.content \o Flatten(f.writes))]
Closed(f) == [f EXCEPT !.closed = TRUE]

\* raise: the exception leaves save_gltf
Raise(e) == pc' = "raised" /\ exc' = e

-----------------------------------------------------------------------------
(* save_gltf, lines 37-67 *)

\* the indentation used in every format
IndentAlways(settings) == 4

\* indent: None (written 0) for GLB, else 4
Indent(settings) == IF settings.gltf_format # "GLB" THEN 4 ELSE 0

Separators(settings) ==
    IF settings.gltf_format # "GLB" THEN <<<<",">>, <<" ", ":", " ">>>>
    ELSE <<<<",">>, <<":">>>>

\* the items left in insertion order
OrderedAsInserted(tree) == tree

\* gltf_ordered
Ordered(tree) == Sorted(tree)

\* gltf_encoded
Encoded(tree, settings) == JsonDumps(Ordered(tree), Indent(settings), Separators(settings))

Serialize ==
    /\ pc = "start"
    /\ IF SortRaises(gltf) \/ DumpsRaises(gltf)
       THEN Raise("ValueError") /\ UNCHANGED gltf_encoded
       ELSE /\ gltf_encoded' = Encoded(gltf, export_settings)
            /\ pc' = "encoded"
            /\ UNCHANGED exc
    /\ UNCHANGED <<gltf, export_settings, glb_buffer, byteorder, lens, file, disk, data,
                   requests, response, hash, browser, result, previous, blender>>

-----------------------------------------------------------------------------
(* save_gltf, lines 71-81: the .gltf file and its sibling *)

\* the text branch taken for the separate format alone
WritesTextSeparateOnly(settings) == settings.gltf_format = "GLTF_SEPARATE"

\* line 71
WritesText(settings) == settings.gltf_format # "GLB"

OpenText ==
    /\ pc = "encoded"
    /\ WritesText(export_settings)
    /\ file' = Open(export_settings.gltf_filepath)
    /\ disk' = Truncated(disk, export_settings.gltf_filepath)
    /\ pc' = "text_open"
    /\ UNCHANGED <<exc, gltf, export_settings, glb_buffer, byteorder, gltf_encoded, lens,
                   data, requests, response, hash, browser, result, previous, blender>>

WriteText ==
    /\ pc = "text_open"
    /\ file' = Write(Write(file, Encode(gltf_encoded)), Encode(<<"\n">>))
    /\ pc' = "text_written"
    /\ UNCHANGED <<exc, gltf, export_settings, glb_buffer, byteorder, gltf_encoded, lens,
                   disk, data, requests, response, hash, browser, result, previous, blender>>

CloseText ==
    /\ pc = "text_written"
    /\ disk' = Flushed(disk, file)
    /\ file' = Closed(file)
    /\ pc' = "text_closed"
    /\ UNCHANGED <<exc, gltf, export_settings, glb_buffer, byteorder, gltf_encoded, lens,
                   data, requests, response, hash, browser, result, previous, blender>>

\* the sibling written whether or not the buffers are embedded
WritesSiblingEmbeddedToo(settings) == PyPositive(PyLen(settings.gltf_binary))

\* line 78
WritesSibling(settings) ==
    PyPositive(PyLen(settings.gltf_binary)) /\ ~settings.gltf_embed_buffers

\* line 79: gltf_filedirectory + gltf_binaryfilename
SiblingPath(settings) == <<settings.gltf_filedirectory, settings.gltf_binaryfilename>>

OpenSibling ==
    /\ pc = "text_closed"
    /\ WritesSibling(export_settings)
    /\ file' = Open(SiblingPath(export_settings))
    /\ disk' = Truncated(disk, SiblingPath(export_settings))
    /\ pc' = "bin_open"
    /\ UNCHANGED <<exc, gltf, export_settings, glb_buffer, byteorder, gltf_encoded, lens,
                   data, requests, response, hash, browser, result, previous, blender>>

WriteSibling ==
    /\ pc = "bin_open"
    /\ file' = Write(file, export_settings.gltf_binary.data)
    /\ pc' = "bin_written"
    /\ UNCHANGED <<exc, gltf, export_settings, glb_buffer, byteorder, gltf_encoded, lens,
                   disk, data, requests, response, hash, browser, result, previous, blender>>

CloseSibling ==
    /\ pc = "bin_written"
    /\ disk' = Flushed(disk, file)
    /\ file' = Closed(file)
    /\ pc' = "return"
    /\ UNCHANGED <<exc, gltf, export_settings, glb_buffer, byteorder, gltf_encoded, lens,
                   data, requests, response, hash, browser, result, previous, blender>>

SkipSibling ==
    /\ pc = "text_closed"
    /\ ~WritesSibling(export_settings)
    /\ pc' = "return"
    /\ UNCHANGED <<exc, gltf, export_settings, glb_buffer, byteorder, gltf_encoded, lens,
                   file, disk, data, requests, response, hash, browser, result, previous, blender>>

-----------------------------------------------------------------------------
(* save_gltf, lines 84-119: the GLB container *)

OpenGlb ==
    /\ pc = "encoded"
    /\ ~WritesText(export_settings)
    /\ file' = Open(export_settings.gltf_filepath)
    /\ disk' = Truncated(disk, export_settings.gltf_filepath)
    /\ pc' = "glb_open"
    /\ UNCHANGED <<exc, gltf, export_settings, glb_buffer, byteorder, gltf_encoded, lens,
                   data, requests, response, hash, browser, result, previous, blender>>

\* open() raises OSError: the path cannot be opened for writing (lines 72, 79, 84)
OpenFails ==
    /\ \/ pc = "encoded"
       \/ pc = "text_closed" /\ WritesSibling(export_settings)
    /\ Raise("OSError")
    /\ UNCHANGED <<gltf, export_settings, glb_buffer, byteorder, gltf_encoded, lens, file,
                   disk, data, requests, response, hash, browser, result, previous, blender>>

\* the padding without its outer mask: 4 bytes where none are needed
PaddingUnmasked(n) == 4 - PyAnd(n, 3)

\* lines 90 and 94: (4 - (n & 3)) & 3
Padding(n) == BitAnd(4 - PyAnd(n, 3), 3)

\* the length left as it was: the padding is written but not counted
PaddedLengthUncounted(n) == n

\* lines 91 and 95
PaddedLength(n) == PyAdd(n, PyInt(Padding(n)))

\* the total without the header of the BIN chunk
TotalLengthNoBinHeader(length_gltf, length_bin) ==
    IF PyPositive(length_bin)
    THEN PyAdd(PyAdd(PyInt(12 + 8), length_gltf), length_bin)
    ELSE PyAdd(PyInt(12 + 8), length_gltf)

\* lines 97-99
TotalLength(length_gltf, length_bin) ==
    IF PyPositive(length_bin)
    THEN PyAdd(PyAdd(PyInt(12 + 8), length_gltf), PyAdd(PyInt(8), length_bin))
    ELSE PyAdd(PyInt(12 + 8), length_gltf)

\* line 86
gltf_data == Bytes(Encode(gltf_encoded))

\* lines 86-99
PackLengths ==
    /\ pc = "glb_open"
    /\ lens' = [length_gltf |-> PaddedLength(PyLen(gltf_data)),
                spaces_gltf |-> Padding(PyLen(gltf_data)),
                length_bin |-> PaddedLength(PyLen(glb_buffer)),
                zeros_bin |-> Padding(PyLen(glb_buffer)),
                length |-> TotalLength(PaddedLength(PyLen(gltf_data)),
                                       PaddedLength(PyLen(glb_buffer)))]
    /\ pc' = "lengths"
    /\ UNCHANGED <<exc, gltf, export_settings, glb_buffer, byteorder, gltf_encoded, file,
                   disk, data, requests, response, hash, browser, result, previous, blender>>

\* lines 102-104; struct.pack raises after the magic and the version went out
WriteHeader ==
    /\ pc = "lengths"
    /\ IF PackRaises(lens.length)
       THEN /\ file' = Write(Write(file, Encode(Chars("glTF"))),
                             StructPackI(PyInt(2), byteorder))
            /\ Raise("struct.error")
       ELSE /\ file' = Write(Write(Write(file, Encode(Chars("glTF"))),
                                   StructPackI(PyInt(2), byteorder)),
                             StructPackI(lens.length, byteorder))
            /\ pc' = "header"
            /\ UNCHANGED exc
    /\ UNCHANGED <<gltf, export_settings, glb_buffer, byteorder, gltf_encoded, lens, disk,
                   data, requests, response, hash, browser, result, previous, blender>>

\* the spaces written ahead of the JSON text
JsonChunkPadFirst(f, l, order) ==
    Write(Write(Write(Write(f, StructPackI(l.length_gltf, order)),
                      Encode(Chars("JSON"))),
                Repeat(32, l.spaces_gltf)),
          gltf_data.data)

\* lines 107-110
JsonChunk(f, l, order) ==
    Write(Write(Write(Write(f, StructPackI(l.length_gltf, order)),
                      Encode(Chars("JSON"))),
                gltf_data.data),
          Repeat(32, l.spaces_gltf))

WriteJsonChunk ==
    /\ pc = "header"
    /\ IF PackRaises(lens.length_gltf)
       THEN Raise("struct.error") /\ UNCHANGED file
       ELSE /\ file' = JsonChunk(file, lens, byteorder)
            /\ pc' = "json_chunk"
            /\ UNCHANGED exc
    /\ UNCHANGED <<gltf, export_settings, glb_buffer, byteorder, gltf_encoded, lens, disk,
                   data, requests, response, hash, browser, result, previous, blender>>

\* lines 114-117
BinChunk(f, l, binary, order) ==
    Write(Write(Write(Write(f, StructPackI(l.length_bin, order)),
                      Encode(Chars("BIN")) \o <<0>>),
                binary.data),
          Repeat(0, l.zeros_bin))

\* the BIN chunk written whatever the buffer
WritesBinChunkAlways(l) == TRUE

\* line 113
WritesBinChunk(l) == PyPositive(l.length_bin)

WriteBinChunk ==
    /\ pc = "json_chunk"
    /\ WritesBinChunk(lens)
    /\ IF PackRaises(lens.length_bin)
       THEN Raise("struct.error") /\ UNCHANGED file
       ELSE /\ file' = BinChunk(file, lens, glb_buffer, byteorder)
            /\ pc' = "chunks"
            /\ UNCHANGED exc
    /\ UNCHANGED <<gltf, export_settings, glb_buffer, byteorder, gltf_encoded, lens, disk,
                   data, requests, response, hash, browser, result, previous, blender>>

SkipBinChunk ==
    /\ pc = "json_chunk"
    /\ ~WritesBinChunk(lens)
    /\ pc' = "chunks"
    /\ UNCHANGED <<exc, gltf, export_settings, glb_buffer, byteorder, gltf_encoded, lens,
                   file, disk, data, requests, response, hash, browser, result, previous, blender>>

\* the close left out: the container is read back while it is still open
CloseGlbOmitted ==
    /\ pc = "chunks"
    /\ pc' = "closed"
    /\ UNCHANGED <<exc, gltf, export_settings, glb_buffer, byteorder, gltf_encoded, lens,
                   file, disk, data, requests, response, hash, browser, result, previous,
                   blender>>

\* line 119
CloseGlb ==
    /\ pc = "chunks"
    /\ disk' = Flushed(disk, file)
    /\ file' = Closed(file)
    /\ pc' = "closed"
    /\ UNCHANGED <<exc, gltf, export_settings, glb_buffer, byteorder, gltf_encoded, lens,
                   data, requests, response, hash, browser, result, previous, blender>>

\* an exception left save_gltf with the file open: the file object is
\* finalized, which flushes what was written and closes it
Finalize ==
    /\ pc = "raised"
    /\ ~file.closed
    /\ disk' = Flushed(disk, file)
    /\ file' = Closed(file)
    /\ UNCHANGED <<pc, exc, gltf, export_settings, glb_buffer, byteorder, gltf_encoded,
                   lens, data, requests, response, hash, browser, result, previous, blender>>

-----------------------------------------------------------------------------
(* save_gltf, lines 121-138: the upload *)

\* lines 121-122
ReadBack ==
    /\ pc = "closed"
    /\ data' = disk[file.name].content
    /\ pc' = "read"
    /\ UNCHANGED <<exc, gltf, export_settings, glb_buffer, byteorder, gltf_encoded, lens,
                   file, disk, requests, response, hash, browser, result, previous, blender>>

\* the request of lines 125-127
Request(body) ==
    [url |-> "https://ipfs.exokit.org", data |-> body,
     content_type |-> "model/gltf-binary"]

\* lines 125-127: the endpoint answers, or requests.post raises
Post ==
    /\ pc = "read"
    /\ requests' = Append(requests, Request(data))
    /\ \/ \E r \in Responses : response' = r /\ pc' = "posted" /\ UNCHANGED exc
       \/ Raise("ConnectionError") /\ UNCHANGED response
    /\ UNCHANGED <<gltf, export_settings, glb_buffer, byteorder, gltf_encoded, lens, file,
                   disk, data, hash, browser, result, previous, blender>>

\* line 130: r.json()
ParseJson ==
    /\ pc = "posted"
    /\ IF response.body = "not_json"
       THEN Raise("JSONDecodeError")
       ELSE pc' = "parsed" /\ UNCHANGED exc
    /\ UNCHANGED <<gltf, export_settings, glb_buffer, byteorder, gltf_encoded, lens, file,
                   disk, data, requests, response, hash, browser, result, previous, blender>>

\* line 133: resJson['hash']
GetHash ==
    /\ pc = "parsed"
    /\ IF response.body = "hash"
       THEN hash' = "Qm" /\ pc' = "hashed" /\ UNCHANGED exc
       ELSE Raise("KeyError") /\ UNCHANGED hash
    /\ UNCHANGED <<gltf, export_settings, glb_buffer, byteorder, gltf_encoded, lens, file,
                   disk, data, requests, response, browser, result, previous, blender>>

\* line 136
ViewerUrl(h, ext) ==
    [url |-> "https://app.webaverse.com/preview.html", hash |-> h, ext |-> ext]

OpenBrowser ==
    /\ pc = "hashed"
    /\ browser' = Append(browser, ViewerUrl(hash, "glb"))
    /\ pc' = "return"
    /\ UNCHANGED <<exc, gltf, export_settings, glb_buffer, byteorder, gltf_encoded, lens,
                   file, disk, data, requests, response, hash, result, previous, blender>>

\* True is returned with the hash in hand, the viewer not yet opened
ReturnBeforeViewer ==
    /\ pc = "hashed"
    /\ result' = "True"
    /\ pc' = "returned"
    /\ UNCHANGED <<exc, gltf, export_settings, glb_buffer, byteorder, gltf_encoded, lens,
                   file, disk, data, requests, response, hash, browser, previous, blender>>

\* line 138
Return ==
    /\ pc = "return"
    /\ result' = "True"
    /\ pc' = "returned"
    /\ UNCHANGED <<exc, gltf, export_settings, glb_buffer, byteorder, gltf_encoded, lens,
                   file, disk, data, requests, response, hash, browser, previous, blender>>

-----------------------------------------------------------------------------
(* vrm/exporter/__init__.py, ExportVRM.execute                              *)

\* lines 49-62: no file path, a scene that does not validate, or nothing
\* converted: CANCELLED
\* a validation error of GlbObj is let through
VrmCancelsUnlessInvalid(v) == v.filepath = <<>> \/ v.vrm_bin = <<>>

\* lines 49-50, 54-59, 61-62: the three ways to CANCELLED
VrmCancels(v) == v.filepath = <<>> \/ v.glb_obj = "ValidationError" \/ v.vrm_bin = <<>>

VrmConvert ==
    /\ pc = "vrm_start"
    /\ IF VrmCancels(vrm)
       THEN result' = "CANCELLED" /\ pc' = "returned"
       ELSE pc' = "vrm_converted" /\ UNCHANGED result
    /\ UNCHANGED <<exc, gltf, export_settings, glb_buffer, byteorder, gltf_encoded, lens,
                   file, disk, data, requests, response, hash, browser, previous, blender>>

\* line 63: open(filepath, "wb")
VrmOpen ==
    /\ pc = "vrm_converted"
    /\ file' = Open(vrm.filepath)
    /\ disk' = Truncated(disk, vrm.filepath)
    /\ pc' = "vrm_open"
    /\ UNCHANGED <<exc, gltf, export_settings, glb_buffer, byteorder, gltf_encoded, lens,
                   data, requests, response, hash, browser, result, previous, blender>>

\* line 63: open() raises OSError
VrmOpenFails ==
    /\ pc = "vrm_converted"
    /\ Raise("OSError")
    /\ UNCHANGED <<gltf, export_settings, glb_buffer, byteorder, gltf_encoded, lens, file,
                   disk, data, requests, response, hash, browser, result, previous, blender>>

\* line 64
VrmWrite ==
    /\ pc = "vrm_open"
    /\ file' = Write(file, vrm.vrm_bin[1])
    /\ pc' = "vrm_written"
    /\ UNCHANGED <<exc, gltf, export_settings, glb_buffer, byteorder, gltf_encoded, lens,
                   disk, data, requests, response, hash, browser, result, previous, blender>>

\* the end of the with block of line 63 closes the file
VrmClose ==
    /\ pc = "vrm_written"
    /\ disk' = Flushed(disk, file)
    /\ file' = Closed(file)
    /\ pc' = "vrm_closed"
    /\ UNCHANGED <<exc, gltf, export_settings, glb_buffer, byteorder, gltf_encoded, lens,
                   data, requests, response, hash, browser, result, previous, blender>>

\* lines 72-73
VrmReadBack ==
    /\ pc = "vrm_closed"
    /\ data' = disk[vrm.filepath].content
    /\ pc' = "vrm_read"
    /\ UNCHANGED <<exc, gltf, export_settings, glb_buffer, byteorder, gltf_encoded, lens,
                   file, disk, requests, response, hash, browser, result, previous, blender>>

\* line 76: the module imports neither requests nor webbrowser nor
\* print_console, so evaluating the name requests raises NameError; nothing
\* is sent, and lines 79-89 are never reached
VrmPost ==
    /\ pc = "vrm_read"
    /\ Raise("NameError")
    /\ UNCHANGED <<gltf, export_settings, glb_buffer, byteorder, gltf_encoded, lens, file,
                   disk, data, requests, response, hash, browser, result, previous, blender>>

-----------------------------------------------------------------------------

Next ==
    \/ Serialize
    \/ OpenText
    \/ WriteText
    \/ CloseText
    \/ OpenSibling
    \/ WriteSibling
    \/ CloseSibling
    \/ SkipSibling
    \/ OpenGlb
    \/ OpenFails
    \/ PackLengths
    \/ WriteHeader
    \/ WriteJsonChunk
    \/ WriteBinChunk
    \/ SkipBinChunk
    \/ CloseGlb
    \/ Finalize
    \/ ReadBack
    \/ Post
    \/ ParseJson
    \/ GetHash
    \/ OpenBrowser
    \/ Return
    \/ VrmConvert
    \/ VrmOpen
    \/ VrmOpenFails
    \/ VrmWrite
    \/ VrmClose
    \/ VrmReadBack
    \/ VrmPost

Spec == Init /\ [][Next]_vars

-----------------------------------------------------------------------------
(* A second call of save_gltf on the same host, after a call that wrote    *)
(* its files, with the same Document Tree, Binary Buffer and settings: the *)
(* tree's items may have been inserted in another order, the timestamp of  *)
(* the settings is a later one, and the files of the first call are still  *)
(* there.                                                                  *)

\* the call ended with its output files written: it returned, or only the
\* upload failed
UploadFaults == {"ConnectionError", "JSONDecodeError", "KeyError"}
Completed ==
    /\ operator = "save_gltf"
    /\ pc = "returned" \/ (pc = "raised" /\ exc \in UploadFaults)

\* the same items in any order
Reorderings(tree) ==
    {t \in [1..Len(tree) -> {tree[i] : i \in 1..Len(tree)}] : DistinctKeys(t)}

Rerun ==
    /\ Completed
    /\ ~previous.ran
    /\ gltf' \in Reorderings(gltf)
    /\ previous' = [ran |-> TRUE, reordered |-> gltf' # gltf, disk |-> disk]
    /\ export_settings' = [export_settings EXCEPT !.timestamp = @ + 1]
    /\ pc' = "start"
    /\ exc' = "none"
    /\ gltf_encoded' = <<>>
    /\ lens' = NoLens
    /\ file' = NoFileObject
    /\ data' = <<>>
    /\ response' = NoResponse
    /\ hash' = "none"
    /\ result' = "none"
    /\ requests' = <<>>
    /\ browser' = <<>>
    /\ UNCHANGED <<glb_buffer, byteorder, disk, blender>>

NextRerun == Next \/ Rerun

SpecRerun == Init /\ [][NextRerun]_vars

-----------------------------------------------------------------------------
(* __init__.py, ExportGLTF2_Base.check, lines 400-423 *)

GlbExt == <<".", "g", "l", "b">>
GltfExt == <<".", "g", "l", "t", "f">>

\* line 413: ext.lower()
ExtLower(s) == Lower(s)

\* lines 403-419: the file path check leaves in self.filepath
CheckedPath(filepath, export_format) ==
    LET filename == Basename(filepath)
        desired_ext == IF export_format = "GLB" THEN GlbExt ELSE GltfExt
        split == Splitext(filename)
        dotfile == StartsWith(split[1], ".") /\ split[2] = <<>>
        ext == IF dotfile THEN split[1] ELSE split[2]
        ext_lower == ExtLower(ext)
    IN  IF filename = <<>> THEN filepath
        ELSE IF ext_lower \notin {GlbExt, GltfExt} THEN filepath \o desired_ext
        ELSE IF ext_lower # desired_ext
        THEN SubSeq(filepath, 1, Len(filepath) - Len(ext)) \o desired_ext
        ELSE filepath

\* lines 419-423: True when the path was changed
CheckReturns(filepath, export_format) == CheckedPath(filepath, export_format) # filepath

\* the file paths of the instance: a directory or none, then a name with one
\* of these endings
CheckPaths ==
    {dir \o stem \o ext :
        dir \in {<<>>, <<"d", "/">>, <<"d", ".", "g", "l", "b", "/">>},
        stem \in {<<>>, <<"m">>, <<"m", ".", "x">>, <<".">>},
        ext \in {<<>>, GlbExt, GltfExt, <<".", "G", "L", "B">>, <<".", "G", "l", "t", "F">>,
                 <<".", "t", "x", "t">>, <<".">>}}

InitCheck ==
    /\ operator = "ExportGLTF2_Base.check"
    /\ vrm = NoVrm
    /\ addons = <<>>
    /\ hooks = NoHooks
    /\ \E path \in CheckPaths, format \in Formats :
          self = [DefaultProperties EXCEPT !.filepath = path, !.export_format = format]
    /\ extension_panel_unregister_functors = <<>>
    /\ imp = NoImport
    /\ calls = <<>>
    /\ pc = "check"
    /\ NoCall
    /\ disk = [p \in Paths |-> NoFile]

\* a call of check
Check ==
    /\ pc = "check"
    /\ Len(calls) < MaxChecks
    /\ self' = [self EXCEPT !.filepath = CheckedPath(self.filepath, self.export_format)]
    /\ result' = IF CheckReturns(self.filepath, self.export_format) THEN "True" ELSE "False"
    /\ calls' = Append(calls, [method |-> "check", given |-> self.filepath,
                               left |-> self'.filepath, gave |-> result'])
    /\ UNCHANGED <<pc, exc, gltf, export_settings, glb_buffer, byteorder, gltf_encoded, lens,
                   file, disk, data, requests, response, hash, browser, previous,
                   operator, vrm, addons, hooks, extension_panel_unregister_functors, imp>>

NextCheck == Check

SpecCheck == InitCheck /\ [][NextCheck]_vars

-----------------------------------------------------------------------------
(* __init__.py, ExportGLTF2_Base.execute, lines 559-585: the hooks of the  *)
(* enabled add-ons are collected, then gltf2_blender_export.save is called *)

\* the module of an add-on, as the loop looks at it: whether sys.modules has
\* it, and its four optional attributes.  A constructor is "ok" or "raises";
\* glTF2ExportUserExtension may be "absent"; an absent list of constructors
\* and an empty one are both <<>>
Modules ==
    {m \in [loaded : BOOLEAN,
            glTF2ExportUserExtension : {"absent", "ok", "raises"},
            glTF2ExportUserExtensions : {<<>>, <<"ok">>, <<"ok", "raises">>},
            glTF2_pre_export_callback : BOOLEAN,
            glTF2_post_export_callback : BOOLEAN] :
        ~m.loaded => /\ m.glTF2ExportUserExtension = "absent"
                     /\ m.glTF2ExportUserExtensions = <<>>
                     /\ ~m.glTF2_pre_export_callback
                     /\ ~m.glTF2_post_export_callback}

\* the user-facing options of the operator in every combination, for a file
\* path without extension
Options ==
    [filepath : {<<"d", "/", "m">>}, export_format : Formats,
     export_normals : BOOLEAN, export_tangents : BOOLEAN,
     export_animations : BOOLEAN, export_frame_range : BOOLEAN,
     export_force_sampling : BOOLEAN, export_nla_strips : BOOLEAN,
     export_def_bones : BOOLEAN, export_skins : BOOLEAN,
     export_all_influences : BOOLEAN, export_morph : BOOLEAN,
     export_morph_normal : BOOLEAN, export_morph_tangent : BOOLEAN]

\* execute is called with any options and no add-on, or with the default
\* options and any add-ons
InitExecute ==
    /\ operator = "ExportGLTF2_Base.execute"
    /\ vrm = NoVrm
    /\ \/ /\ addons = <<>>
          /\ self \in Options
       \/ /\ addons \in UNION {[1..n -> Modules] : n \in 1..MaxAddons}
          /\ self = [DefaultProperties EXCEPT !.filepath = <<"d", "/", "m">>]
    /\ hooks = NoHooks
    /\ extension_panel_unregister_functors = <<>>
    /\ imp = NoImport
    /\ calls = <<>>
    /\ pc = "execute"
    /\ NoCall
    /\ disk = [p \in Paths |-> NoFile]

\* the tangents go out whenever they are asked for
TangentsAsAsked(s) == s.export_tangents

\* line 491
Tangents(s) == s.export_tangents /\ s.export_normals

\* lines 520-534
AnimationSettings(s) ==
    IF s.export_animations
    THEN [gltf_animations |-> TRUE,
          gltf_frame_range |-> s.export_frame_range,
          gltf_force_sampling |-> s.export_force_sampling,
          gltf_def_bones |-> IF s.export_force_sampling THEN s.export_def_bones ELSE FALSE,
          gltf_nla_strips |-> s.export_nla_strips]
    ELSE [gltf_animations |-> FALSE,
          gltf_frame_range |-> FALSE,
          gltf_move_keyframes |-> FALSE,
          gltf_force_sampling |-> FALSE,
          gltf_def_bones |-> FALSE]

\* lines 535-539
SkinSettings(s) ==
    [gltf_skins |-> s.export_skins,
     gltf_all_vertex_influences |-> IF s.export_skins THEN s.export_all_influences ELSE FALSE]

\* lines 541-549
MorphSettings(s) ==
    [gltf_morph |-> s.export_morph,
     gltf_morph_normal |-> IF s.export_morph THEN s.export_morph_normal ELSE FALSE,
     gltf_morph_tangent |-> IF s.export_morph /\ s.export_morph_normal
                            THEN s.export_morph_tangent ELSE FALSE]

\* lines 475-557: the dict export_settings of an operator with the options s
BuiltSettings(s) ==
    [timestamp |-> 1,
     gltf_filepath |-> s.filepath,
     gltf_filedirectory |-> Dirname(s.filepath) \o <<"/">>,
     gltf_format |-> s.export_format,
     gltf_normals |-> s.export_normals,
     gltf_tangents |-> Tangents(s),
     gltf_binary |-> Bytes(<<>>),
     gltf_binaryfilename |-> Splitext(Basename(s.filepath))[1] \o <<".", "b", "i", "n">>]
    @@ AnimationSettings(s) @@ SkinSettings(s) @@ MorphSettings(s)

\* lines 470-561: check, then the dict export_settings, then the three empty
\* lists
BuildSettings ==
    /\ pc = "execute"
    /\ self' = [self EXCEPT !.filepath = CheckedPath(self.filepath, self.export_format)]
    /\ export_settings' = BuiltSettings(self')
    /\ hooks' = NoHooks
    /\ pc' = "collect"
    /\ UNCHANGED <<exc, gltf, glb_buffer, byteorder, gltf_encoded, lens, file, disk, data,
                   requests, response, hash, browser, result, previous,
                   operator, vrm, addons, extension_panel_unregister_functors, imp, calls>>

\* the entries put in front of the list
ListPrepend(list, entries) == entries \o list

\* lines 572-580: list.append for each of the entries
ListAppend(list, entries) == list \o entries

\* the position of the first constructor of the list that raises, or one
\* past the list
FirstRaising(ctors) ==
    LET bad == {k \in 1..Len(ctors) : ctors[k] = "raises"}
    IN  IF bad = {} THEN Len(ctors) + 1 ELSE CHOOSE k \in bad : \A j \in bad : k <= j

\* lines 570-576: a constructor of add-on i raises
ConstructorRaises(m) ==
    \/ m.glTF2ExportUserExtension = "raises"
    \/ FirstRaising(m.glTF2ExportUserExtensions) <= Len(m.glTF2ExportUserExtensions)

\* lines 570-576: the extension objects of add-on i that get appended, up to
\* the first constructor that raises; hook 0 is glTF2ExportUserExtension,
\* hook k the k-th of glTF2ExportUserExtensions
Constructed(i, m) ==
    IF m.glTF2ExportUserExtension = "raises" THEN <<>>
    ELSE (IF m.glTF2ExportUserExtension = "ok" THEN <<[addon |-> i, hook |-> 0]>> ELSE <<>>)
         \o [k \in 1..(FirstRaising(m.glTF2ExportUserExtensions) - 1) |->
                [addon |-> i, hook |-> k]]

\* lines 565-580: one turn of the loop.  The lookup of the module is inside
\* a try, the calls of the constructors are not: what a constructor raises
\* leaves execute
CollectHooks ==
    /\ pc = "collect"
    /\ hooks.next <= Len(addons)
    /\ LET i == hooks.next
           m == addons[i]
       IN  IF ~m.loaded
           THEN /\ hooks' = [hooks EXCEPT !.next = i + 1]
                /\ UNCHANGED <<pc, exc>>
           ELSE IF ConstructorRaises(m)
           THEN /\ hooks' = [hooks EXCEPT !.user_extensions = ListAppend(@, Constructed(i, m))]
                /\ Raise("Exception")
           ELSE /\ hooks' =
                      [next |-> i + 1,
                       user_extensions |-> ListAppend(hooks.user_extensions, Constructed(i, m)),
                       pre_export_callbacks |->
                           ListAppend(hooks.pre_export_callbacks,
                                      IF m.glTF2_pre_export_callback THEN <<i>> ELSE <<>>),
                       post_export_callbacks |->
                           ListAppend(hooks.post_export_callbacks,
                                      IF m.glTF2_post_export_callback THEN <<i>> ELSE <<>>)]
                /\ UNCHANGED <<pc, exc>>
    /\ UNCHANGED <<gltf, export_settings, glb_buffer, byteorder, gltf_encoded, lens, file,
                   disk, data, requests, response, hash, browser, result, previous,
                   operator, vrm, addons, self, extension_panel_unregister_functors,
                   imp, calls>>

\* lines 581-585: the lists go into export_settings and execute calls
\* gltf2_blender_export.save
\* the dict is replaced by one with the three lists alone
HooksAlone(settings, h) ==
    [gltf_user_extensions |-> h.user_extensions,
     pre_export_callbacks |-> h.pre_export_callbacks,
     post_export_callbacks |-> h.post_export_callbacks]

\* lines 581-583: the three lists become keys of export_settings
WithHooks(settings, h) ==
    [gltf_user_extensions |-> h.user_extensions,
     pre_export_callbacks |-> h.pre_export_callbacks,
     post_export_callbacks |-> h.post_export_callbacks] @@ settings

CallSave ==
    /\ pc = "collect"
    /\ hooks.next > Len(addons)
    /\ export_settings' = WithHooks(export_settings, hooks)
    /\ pc' = "save"
    /\ UNCHANGED <<exc, gltf, glb_buffer, byteorder, gltf_encoded, lens,
                   file, disk, data, requests, response, hash, browser, result, previous,
                   blender>>

NextExecute ==
    \/ BuildSettings
    \/ CollectHooks
    \/ CallSave

SpecExecute == InitExecute /\ [][NextExecute]_vars

-----------------------------------------------------------------------------
(* __init__.py, ExportGLTF2_Base.invoke, lines 425-454, followed by        *)
(* execute, any number of times in one session of the host                 *)

\* the add-ons of a session: a module as above, with the register_panel
\* function that invoke calls
PanelModules ==
    {m \in [loaded : BOOLEAN,
            glTF2ExportUserExtension : {"absent", "ok"},
            glTF2ExportUserExtensions : {<<>>},
            glTF2_pre_export_callback : BOOLEAN,
            glTF2_post_export_callback : {FALSE},
            register_panel : {"ok", "raises"}] :
        ~m.loaded => /\ m.glTF2ExportUserExtension = "absent"
                     /\ ~m.glTF2_pre_export_callback
                     /\ m.register_panel = "ok"}

InitInvocations ==
    /\ operator = "ExportGLTF2_Base.execute"
    /\ vrm = NoVrm
    /\ addons \in UNION {[1..n -> PanelModules] : n \in 0..MaxAddons}
    /\ self = [DefaultProperties EXCEPT !.filepath = <<"d", "/", "m">>]
    /\ hooks = NoHooks
    /\ extension_panel_unregister_functors = <<>>
    /\ imp = NoImport
    /\ calls = <<>>
    /\ pc = "idle"
    /\ NoCall
    /\ disk = [p \in Paths |-> NoFile]

\* lines 446-450: the add-on is loaded, has a user extension, and its
\* register_panel returns a functor
RegistersPanel(m) ==
    /\ m.loaded
    /\ m.glTF2ExportUserExtension # "absent" \/ m.glTF2ExportUserExtensions # <<>>
    /\ m.register_panel = "ok"

\* lines 444-450: the functors the n-th invocation appends, one for each
\* add-on that registers a panel, in the order of the add-ons
RECURSIVE Registered(_, _)
Registered(n, i) ==
    IF i > Len(addons) THEN <<>>
    ELSE (IF RegistersPanel(addons[i]) THEN <<[invocation |-> n, addon |-> i]>> ELSE <<>>)
         \o Registered(n, i + 1)

\* lines 425-454: invoke, at the start of the session or after an export
\* has ended; the file dialog then calls execute
Invoke ==
    /\ pc \in {"idle", "save"}
    /\ Len(calls) < MaxInvocations
    /\ extension_panel_unregister_functors' =
          extension_panel_unregister_functors \o Registered(Len(calls) + 1, 1)
    /\ calls' = Append(calls,
                       [method |-> "invoke",
                        registered |-> Registered(Len(calls) + 1, 1),
                        has_active_extenions |->
                            Len(extension_panel_unregister_functors') > 0])
    /\ pc' = "execute"
    /\ UNCHANGED <<exc, gltf, export_settings, glb_buffer, byteorder, gltf_encoded, lens,
                   file, disk, data, requests, response, hash, browser, result, previous,
                   operator, vrm, addons, hooks, self, imp>>

NextInvocations ==
    \/ Invoke
    \/ BuildSettings
    \/ CollectHooks
    \/ CallSave

SpecInvocations == InitInvocations /\ [][NextInvocations]_vars

-----------------------------------------------------------------------------
(* __init__.py, ImportGLTF2.import_gltf2 and unit_import, lines 1005-1047  *)

\* what the importer does with a file: it imports it, it raises the
\* ImportError of gltf2_io_gltf, or it raises another exception
Outcomes == {"FINISHED", "ImportError", "Exception"}

InitImport ==
    /\ operator = "ImportGLTF2.import_gltf2"
    /\ vrm = NoVrm
    /\ addons = <<>>
    /\ hooks = NoHooks
    /\ self = DefaultProperties
    /\ extension_panel_unregister_functors = <<>>
    /\ \/ \E outcome \in Outcomes :
             imp = [files |-> <<>>, filepath |-> outcome, next |-> 1, ret |-> "none"]
       \/ \E n \in 1..MaxFiles : \E files \in [1..n -> Outcomes] :
             imp = [files |-> files, filepath |-> "FINISHED", next |-> 1, ret |-> "none"]
    /\ calls = <<>>
    /\ pc = "import"
    /\ NoCall
    /\ disk = [p \in Paths |-> NoFile]

\* the last result decides
RetOfLast(ret, returned) == returned

\* lines 1017-1018: ret after a unit_import that returned
Ret(ret, returned) == IF returned = "FINISHED" THEN "FINISHED" ELSE ret

\* lines 1028-1047: what unit_import returns for a file it does not leave
\* by an exception
UnitImportReturns(outcome) == IF outcome = "FINISHED" THEN "FINISHED" ELSE "CANCELLED"

\* lines 1011-1013, 1020: the branch on self.files
BeginImport ==
    /\ pc = "import"
    /\ IF imp.files # <<>>
       THEN imp' = [imp EXCEPT !.ret = "CANCELLED"] /\ pc' = "files"
       ELSE pc' = "single" /\ UNCHANGED imp
    /\ UNCHANGED <<exc, gltf, export_settings, glb_buffer, byteorder, gltf_encoded, lens,
                   file, disk, data, requests, response, hash, browser, result, previous,
                   operator, vrm, addons, hooks, self, extension_panel_unregister_functors,
                   calls>>

\* lines 1015-1018: one turn of the loop over self.files
UnitImport ==
    /\ pc = "files"
    /\ imp.next <= Len(imp.files)
    /\ LET outcome == imp.files[imp.next]
       IN  /\ calls' = Append(calls, [method |-> "unit_import", file |-> imp.next,
                                      outcome |-> outcome])
           /\ IF outcome = "Exception"
              THEN Raise("Exception") /\ UNCHANGED imp
              ELSE /\ imp' = [imp EXCEPT !.next = @ + 1,
                                         !.ret = Ret(@, UnitImportReturns(outcome))]
                   /\ UNCHANGED <<pc, exc>>
    /\ UNCHANGED <<gltf, export_settings, glb_buffer, byteorder, gltf_encoded, lens,
                   file, disk, data, requests, response, hash, browser, result, previous,
                   operator, vrm, addons, hooks, self, extension_panel_unregister_functors>>

\* line 1019
ImportReturn ==
    /\ pc = "files"
    /\ imp.next > Len(imp.files)
    /\ result' = imp.ret
    /\ pc' = "returned"
    /\ UNCHANGED <<exc, gltf, export_settings, glb_buffer, byteorder, gltf_encoded, lens,
                   file, disk, data, requests, response, hash, browser, previous, blender>>

\* line 1022: the import of the single file self.filepath
SingleImport ==
    /\ pc = "single"
    /\ calls' = Append(calls, [method |-> "unit_import", file |-> 0,
                               outcome |-> imp.filepath])
    /\ IF imp.filepath = "Exception"
       THEN Raise("Exception") /\ UNCHANGED result
       ELSE /\ result' = UnitImportReturns(imp.filepath)
            /\ pc' = "returned"
            /\ UNCHANGED exc
    /\ UNCHANGED <<gltf, export_settings, glb_buffer, byteorder, gltf_encoded, lens,
                   file, disk, data, requests, response, hash, browser, previous,
                   operator, vrm, addons, hooks, self, extension_panel_unregister_functors,
                   imp>>

NextImport ==
    \/ BeginImport
    \/ UnitImport
    \/ ImportReturn
    \/ SingleImport

SpecImport == InitImport /\ [][NextImport]_vars

-----------------------------------------------------------------------------
(* Every entry point of the export: save_gltf, ExportVRM.execute and       *)
(* ExportGLTF2_Base.execute                                                *)

InitExport == Init \/ InitExecute

NextExport == Next \/ NextExecute

SpecExport == InitExport /\ [][NextExport]_vars

-----------------------------------------------------------------------------
(* Reading a container back *)

GlbMode == export_settings.gltf_format = "GLB"

\* line 119 has closed the container
GlbFileWritten ==
    /\ GlbMode
    /\ \/ pc \in {"closed", "read", "posted", "parsed", "hashed", "return", "returned"}
       \/ pc = "raised" /\ exc \in UploadFaults

\* the i-th write() of the call, read as a length field
Declared(i) == StructUnpackI(file.writes[i], byteorder)

\* the least multiple of 4 that is not below n
PadUp(n) == ((n + 3) \div 4) * 4

\* the least number of bytes that brings n to a multiple of 4
LeastPad(n) == CHOOSE k \in 0..3 : (n + k) % 4 = 0 /\ \A j \in 0..(k - 1) : (n + j) % 4 # 0

Min(a, b) == IF a <= b THEN a ELSE b

RECURSIVE ParseChunks(_, _, _)
\* the chunks of container c from position pos on, split by their declared
\* lengths as a reader on the same host splits them
ParseChunks(c, pos, order) ==
    IF pos + 7 > Len(c) THEN <<>>
    ELSE LET n == StructUnpackI(SubSeq(c, pos, pos + 3), order)
         IN  <<[declared |-> n,
                type |-> SubSeq(c, pos + 4, pos + 7),
                payload |-> SubSeq(c, pos + 8, Min(pos + 7 + n, Len(c)))]>>
             \o ParseChunks(c, pos + 8 + n, order)

\* the chunks of the container at gltf_filepath
Chunks == ParseChunks(disk[MainPath].content, 13, byteorder)

RECURSIVE ChunkBytes(_)
\* the bytes the chunks claim: 8 of header and the declared length, each
ChunkBytes(chunks) ==
    IF chunks = <<>> THEN 0 ELSE 8 + chunks[1].declared + ChunkBytes(Tail(chunks))

JsonType == Encode(Chars("JSON"))
BinType == Encode(Chars("BIN")) \o <<0>>

-----------------------------------------------------------------------------
(* C1: in a GLB file, the length field of every chunk is a multiple of 4   *)
(* and is the number of bytes, payload and padding, written after the      *)
(* chunk's 8-byte header.  The writes of a container are, in order: magic, *)
(* version, total length; JSON length, JSON type, JSON text, spaces; BIN   *)
(* length, BIN type, buffer, zeros.                                        *)
C1_ChunkLengthIsPaddedAndWritten ==
    GlbMode =>
        /\ Len(file.writes) >= 7 =>
              /\ Len(file.writes[4]) + Len(file.writes[5]) = 8
              /\ Declared(4) % 4 = 0
              /\ Declared(4) = Len(file.writes[6]) + Len(file.writes[7])
        /\ Len(file.writes) >= 11 =>
              /\ Len(file.writes[8]) + Len(file.writes[9]) = 8
              /\ Declared(8) % 4 = 0
              /\ Declared(8) = Len(file.writes[10]) + Len(file.writes[11])
        /\ GlbFileWritten =>
              \A i \in 1..Len(Chunks) :
                  /\ Chunks[i].declared % 4 = 0
                  /\ Chunks[i].declared = Len(Chunks[i].payload)

\* both chunks written, each with padding
C1_Witness ==
    /\ pc = "returned"
    /\ GlbMode
    /\ Len(file.writes) = 11
    /\ Len(file.writes[7]) > 0
    /\ Len(file.writes[11]) > 0
    /\ Len(Chunks) = 2

(* C2: the total-length field of the header is 12 + 8 + padded JSON length *)
(* + (8 + padded buffer length when the BIN chunk is there), and it is the *)
(* number of bytes in the file.                                            *)
C2_TotalLengthIsFileSize ==
    GlbFileWritten =>
        /\ Declared(3) = 12 + 8 + PadUp(Len(Encode(gltf_encoded)))
                         + (IF Len(file.writes) > 7 THEN 8 + PadUp(Len(glb_buffer.data)) ELSE 0)
        /\ Declared(3) = Len(disk[MainPath].content)
        /\ StructUnpackI(SubSeq(disk[MainPath].content, 9, 12), byteorder)
              = Len(disk[MainPath].content)

C2_Witness ==
    /\ GlbFileWritten
    /\ Len(file.writes) = 11
    /\ Len(glb_buffer.data) % 4 # 0
    /\ Len(disk[MainPath].content) > 12 + 8 + 8

(* C3: a GLB file is the header, then the JSON chunk, then the BIN chunk;  *)
(* the BIN chunk is there exactly when the buffer is not empty; an empty   *)
(* buffer gives one chunk and a total of 12 + 8 + padded JSON length;      *)
(* there is no chunk of another type and nothing else in the file.         *)
C3_HeaderJsonThenBin ==
    GlbFileWritten =>
        LET c == disk[MainPath].content
        IN  /\ SubSeq(c, 1, 4) = Encode(Chars("glTF"))
            /\ Len(Chunks) = (IF Len(glb_buffer.data) > 0 THEN 2 ELSE 1)
            /\ Chunks[1].type = JsonType
            /\ Len(Chunks) = 2 => Chunks[2].type = BinType
            /\ Len(c) = 12 + ChunkBytes(Chunks)
            /\ Len(glb_buffer.data) = 0 =>
                  Len(c) = 12 + 8 + PadUp(Len(Encode(gltf_encoded)))

\* an empty buffer: the JSON chunk alone
C3_Witness ==
    /\ pc = "returned"
    /\ GlbMode
    /\ Len(glb_buffer.data) = 0
    /\ Len(gltf) > 0
    /\ Len(Chunks) = 1

(* C4: after a payload of n bytes come (4 - (n & 3)) & 3 padding bytes,    *)
(* the least number in 0..3 that makes the chunk a multiple of 4: spaces   *)
(* after the JSON text, zero bytes after the buffer; 10 bytes take 2, and  *)
(* 7 bytes take 1 and are declared 8.                                      *)
PaddingFormulaIsLeast ==
    /\ \A n \in 0..(4 * MaxBin) : Padding(PyInt(n)) = LeastPad(n)
    /\ Padding(PyInt(10)) = 2 /\ PaddedLength(PyInt(10)) = PyInt(12)
    /\ Padding(PyInt(7)) = 1 /\ PaddedLength(PyInt(7)) = PyInt(8)

C4_PaddingIsLeastAndTyped ==
    /\ PaddingFormulaIsLeast
    /\ GlbMode =>
        /\ Len(file.writes) >= 7 =>
              /\ file.writes[6] = Encode(gltf_encoded)
              /\ file.writes[7] = Repeat(32, LeastPad(Len(file.writes[6])))
              /\ Declared(4) = Len(file.writes[6]) + LeastPad(Len(file.writes[6]))
        /\ Len(file.writes) >= 11 =>
              /\ file.writes[10] = glb_buffer.data
              /\ file.writes[11] = Repeat(0, LeastPad(Len(file.writes[10])))
              /\ Declared(8) = Len(file.writes[10]) + LeastPad(Len(file.writes[10]))
              /\ Len(file.writes[10]) = 7 => Len(file.writes[11]) = 1 /\ Declared(8) = 8

\* a JSON text that takes 2 spaces and a buffer of 7 bytes
C4_Witness ==
    /\ GlbFileWritten
    /\ Len(file.writes) = 11
    /\ Len(file.writes[7]) = 2
    /\ Len(file.writes[10]) = 7
    /\ Len(file.writes[11]) = 1

-----------------------------------------------------------------------------
(* C5: packing a tree and a buffer into a GLB container and splitting the  *)
(* container by its declared chunk lengths gives back the JSON text and    *)
(* the buffer.                                                             *)

\* the payload of the JSON chunk, and of the BIN chunk (empty without one)
SplitJson == Chunks[1].payload
SplitBin == IF Len(Chunks) >= 2 THEN Chunks[2].payload ELSE <<>>

RECURSIVE StripSpaces(_)
\* bytes.rstrip(b' ')
StripSpaces(b) ==
    IF b # <<>> /\ b[Len(b)] = 32 THEN StripSpaces(SubSeq(b, 1, Len(b) - 1)) ELSE b

\* as claimed: the two payloads are the JSON text and the buffer, byte for byte
C5_SplitIsByteIdentical ==
    GlbFileWritten => SplitJson = Encode(gltf_encoded) /\ SplitBin = glb_buffer.data

\* as amended: the payloads are the JSON text followed by its spaces and the
\* buffer followed by its zero bytes; the text is the JSON payload without
\* its trailing spaces, the buffer the first len(buffer) bytes of the BIN one
C5_SplitIsPaddedOriginal ==
    GlbFileWritten =>
        LET text == Encode(gltf_encoded)
            buffer == glb_buffer.data
        IN  /\ SplitJson = text \o Repeat(32, LeastPad(Len(text)))
            /\ SplitBin = buffer \o Repeat(0, LeastPad(Len(buffer)))
            /\ StripSpaces(SplitJson) = text
            /\ SubSeq(SplitBin, 1, Len(buffer)) = buffer

\* a buffer that ends in a zero byte and takes padding, behind a padded text
C5_Witness ==
    /\ GlbFileWritten
    /\ Len(Chunks) = 2
    /\ glb_buffer.data[Len(glb_buffer.data)] = 0
    /\ Len(SplitBin) > Len(glb_buffer.data)
    /\ Len(SplitJson) > Len(Encode(gltf_encoded))

(* C6: a second call with the same tree, buffer and settings writes the    *)
(* same bytes to the same files, whatever the order in which the tree's    *)
(* items were inserted and whatever the timestamp of the settings.         *)
C6_SameInputsSameBytes ==
    (previous.ran /\ Completed) => disk = previous.disk

\* a second call on a tree whose items were inserted the other way round
C6_Witness ==
    /\ previous.ran /\ Completed
    /\ GlbMode
    /\ Len(gltf) = 2
    /\ previous.reordered
    /\ export_settings.timestamp = 2
    /\ disk[MainPath].exists

(* C7: the top-level keys of the JSON text come in one fixed order,        *)
(* whatever the insertion order of the tree; a section the tree does not   *)
(* have is left out.                                                       *)

\* the section order of the specification's data model
SpecSectionOrder ==
    <<"asset", "scenes", "nodes", "meshes", "materials", "textures", "images",
      "skins", "accessors", "bufferViews", "samplers", "buffers", "animations",
      "cameras", "extensions", "extensionsUsed", "extensionsRequired", "extras">>

\* the first position of text at or after i whose character is in cs (or is
\* not in cs, when inside is FALSE); Len(text) + 1 when there is none
Find(text, i, cs, inside) ==
    LET hits == {j \in i..Len(text) : (text[j] \in cs) = inside}
    IN  IF hits = {} THEN Len(text) + 1
        ELSE CHOOSE j \in hits : \A k \in hits : j <= k

RECURSIVE ScanKeys(_, _, _)
\* the keys of the outermost object of a JSON text, in the order of the text:
\* the strings at nesting depth 1 that a colon follows
ScanKeys(text, i, depth) ==
    LET p == Find(text, i, {"{", "[", "}", "]", "\""}, TRUE)
    IN  IF p > Len(text) THEN <<>>
        ELSE IF text[p] \in {"{", "["} THEN ScanKeys(text, p + 1, depth + 1)
        ELSE IF text[p] \in {"}", "]"} THEN ScanKeys(text, p + 1, depth - 1)
        ELSE LET j == Find(text, p + 1, {"\""}, TRUE)
                 k == Find(text, j + 1, {" ", "\n"}, FALSE)
             IN  (IF depth = 1 /\ k <= Len(text) /\ text[k] = ":"
                  THEN <<SubSeq(text, p + 1, j - 1)>> ELSE <<>>)
                 \o ScanKeys(text, j + 1, depth)

TopLevelKeys(text) == ScanKeys(text, 1, 0)

RECURSIVE Present(_, _, _)
\* the names of order, from position i on, that are keys of the tree
Present(order, i, tree) ==
    IF i > Len(order) THEN <<>>
    ELSE (IF \E n \in 1..Len(tree) : tree[n][1] = order[i]
          THEN <<Chars(order[i])>> ELSE <<>>)
         \o Present(order, i + 1, tree)

\* json.dumps has just returned
Serialized == pc = "encoded"

\* as claimed: the order is the section order of the specification
C7_KeysInSpecSectionOrder ==
    Serialized => TopLevelKeys(gltf_encoded) = Present(SpecSectionOrder, 1, gltf)

\* as amended: the order is that of the sort_order list of save_gltf
C7_KeysInSortOrder ==
    Serialized =>
        /\ TopLevelKeys(gltf_encoded) = Present(sort_order, 1, gltf)
        /\ Len(TopLevelKeys(gltf_encoded)) = Len(gltf)

\* scenes inserted before extensionsUsed, and written behind it
C7_Witness ==
    /\ Serialized
    /\ Len(gltf) = 2
    /\ gltf[1][1] = "scenes"
    /\ gltf[2][1] = "extensionsUsed"
    /\ TopLevelKeys(gltf_encoded) = <<Chars("extensionsUsed"), Chars("scenes")>>

(* C8: a tree with a NaN or an infinity makes save_gltf raise, in every    *)
(* container mode, with no output: no file is opened, created or           *)
(* truncated, and no request is sent.                                      *)
RECURSIVE IsOrHoldsNonFinite(_)
\* the value is NaN or an infinity, or a list or dict that holds one
IsOrHoldsNonFinite(v) ==
    \/ v.type = "float" /\ v.val \in {"nan", "inf", "-inf"}
    \/ v.type = "list" /\ \E i \in DOMAIN v.val : IsOrHoldsNonFinite(v.val[i])
    \/ v.type = "dict" /\ \E i \in DOMAIN v.val : IsOrHoldsNonFinite(v.val[i][2])

TreeHoldsNonFinite == \E i \in DOMAIN gltf : IsOrHoldsNonFinite(gltf[i][2])

C8_NonFiniteRaisesBeforeOutput ==
    TreeHoldsNonFinite =>
        /\ pc \in {"start", "raised"}
        /\ pc = "raised" => exc = "ValueError"
        /\ file = NoFileObject
        /\ disk[MainPath] \in {NoFile, FileOf(OldContent)}
        /\ disk[BinPath] = NoFile
        /\ requests = <<>>
        /\ browser = <<>>
        /\ result = "none"

\* an infinity inside a list, a file of an earlier export left as it was
C8_Witness ==
    /\ pc = "raised"
    /\ exc = "ValueError"
    /\ ~SortRaises(gltf)
    /\ \E i \in 1..Len(gltf) : gltf[i][2] = JList(<<JFloat("inf")>>)
    /\ export_settings.gltf_format = "GLTF_SEPARATE"
    /\ disk[MainPath] = FileOf(OldContent)

(* C9: when buffers[0].byteLength of the tree is not the length of the     *)
(* Binary Buffer, the export fails and writes no artifact.                 *)

\* the tree has a buffers entry whose byteLength is not len(buffer)
ByteLengthMismatch(tree, buffer) ==
    \E i \in 1..Len(tree) :
        /\ tree[i][1] = "buffers"
        /\ PyInt(tree[i][2].val[1].val[1][2].val) # PyLen(buffer)

C9_MismatchIsFatal ==
    ByteLengthMismatch(gltf, glb_buffer) =>
        /\ file = NoFileObject
        /\ disk[MainPath] \in {NoFile, FileOf(OldContent)}
        /\ result = "none"

(* C10: an encoding fault, a length of 2^32 or more among them, leaves     *)
(* save_gltf before a byte is written to the output path, and no length is *)
(* written modulo 2^32.                                                    *)
EncodingFaults == {"ValueError", "struct.error"}

C10_EncodingFaultBeforeAnyByte ==
    /\ exc \in EncodingFaults =>
          /\ file.writes = <<>>
          /\ disk[MainPath].content \in {<<>>, OldContent}
    /\ Len(file.writes) >= 3 /\ file.name = MainPath /\ GlbMode => ~PackRaises(lens.length)

-----------------------------------------------------------------------------
(* C11: every integer field of a GLB container (version, total length,     *)
(* chunk lengths) is 4 bytes, unsigned, least significant byte first, on   *)
(* every host; the file starts with the magic 'glTF' and the version 2.    *)

\* four bytes read least significant byte first
UnpackLittleEndian(b) == b[1] + 256 * b[2] + Base * (b[3] + 256 * b[4])

\* the fields at write() calls 2, 3, 4 and 8 hold these values
FieldValue(i) ==
    CASE i = 2 -> 2
      [] i = 3 -> Len(Flatten(file.writes))
      [] i = 4 -> Len(file.writes[6]) + Len(file.writes[7])
      [] i = 8 -> Len(file.writes[10]) + Len(file.writes[11])

C11_IntegersLittleEndian ==
    GlbFileWritten =>
        /\ file.writes[1] = <<103, 108, 84, 70>>
        /\ \A i \in {2, 3, 4, 8} \cap (1..Len(file.writes)) :
              /\ Len(file.writes[i]) = 4
              /\ UnpackLittleEndian(file.writes[i]) = FieldValue(i)
        /\ SubSeq(disk[MainPath].content, 5, 8) = <<2, 0, 0, 0>>

-----------------------------------------------------------------------------
(* C12: the JSON text is compact (no indentation, separators ',' and ':')  *)
(* or pretty (indent 4, separators ',' and ' : ', a newline after the      *)
(* text in the file); the two texts of a tree hold the same data and       *)
(* differ in white space alone.                                            *)

RECURSIVE MinifyFrom(_, _)
\* the text from position i on, which is outside a string, without the white
\* space that stands outside its strings
MinifyFrom(text, i) ==
    LET p == Find(text, i, {" ", "\n", "\""}, TRUE)
    IN  IF p > Len(text) THEN SubSeq(text, i, Len(text))
        ELSE IF text[p] = "\""
        THEN LET q == Find(text, p + 1, {"\""}, TRUE)
             IN  SubSeq(text, i, Min(q, Len(text))) \o MinifyFrom(text, q + 1)
        ELSE SubSeq(text, i, p - 1)
             \o MinifyFrom(text, Find(text, p, {" ", "\n"}, FALSE))

Minify(text) == MinifyFrom(text, 1)

CompactText(tree) == JsonDumps(Sorted(tree), 0, <<<<",">>, <<":">>>>)
PrettyText(tree) == JsonDumps(Sorted(tree), 4, <<<<",">>, <<" ", ":", " ">>>>)

\* both texts of the tree hold the same data
SameData(tree) ==
    LET compact == CompactText(tree)
    IN  /\ Minify(PrettyText(tree)) = compact
        /\ Minify(compact) = compact

\* as claimed: whatever the container format, either formatting can be had
C12_ModeSelectableInEveryFormat ==
    /\ \A f \in Formats : \A i \in {0, 4} :
          \E s \in Settings : s.gltf_format = f /\ Indent(s) = i
    /\ Serialized => SameData(gltf)

\* as amended: the container format fixes the formatting, compact for GLB
\* and pretty for the two others
C12_ModeFollowsFormatSameData ==
    /\ Serialized =>
          /\ gltf_encoded = (IF GlbMode THEN CompactText(gltf) ELSE PrettyText(gltf))
          /\ GlbMode => Minify(gltf_encoded) = gltf_encoded
          /\ (~GlbMode /\ Len(gltf) > 0) =>
                SubSeq(gltf_encoded, 1, 7) = <<"{", "\n", " ", " ", " ", " ", "\"">>
          /\ SameData(gltf)
    /\ pc = "text_closed" =>
          disk[MainPath].content = Encode(PrettyText(gltf)) \o <<10>>

\* a tree of two sections, one with a nested list, written pretty
C12_Witness ==
    /\ Serialized
    /\ export_settings.gltf_format = "GLTF_EMBEDDED"
    /\ Len(gltf) = 2
    /\ \E i \in 1..2 : gltf[i][1] = "buffers"
    /\ Len(gltf_encoded) > Len(CompactText(gltf))

-----------------------------------------------------------------------------
(* C13: in separate mode the file at gltf_filepath is the pretty text and  *)
(* one newline; the sibling gltf_filedirectory + gltf_binaryfilename is    *)
(* written exactly when the binary of the settings is not empty and the    *)
(* buffers are not embedded, and it holds that binary byte for byte,       *)
(* without padding.                                                        *)

SeparateMode == export_settings.gltf_format = "GLTF_SEPARATE"

\* line 75 has closed the text file
TextFileWritten ==
    /\ export_settings.gltf_format # "GLB"
    /\ \/ pc \in {"text_closed", "bin_open", "bin_written", "return", "returned"}
       \/ pc = "raised" /\ exc = "OSError" /\ disk[MainPath].content # OldContent
                        /\ disk[MainPath].exists

C13_SeparateTextAndSibling ==
    SeparateMode =>
        /\ TextFileWritten =>
              /\ disk[MainPath].content = Encode(PrettyText(gltf)) \o <<10>>
              /\ disk[MainPath].content[Len(disk[MainPath].content) - 1] # 10
        /\ disk[BinPath].exists =>
              /\ Len(export_settings.gltf_binary.data) > 0
              /\ ~export_settings.gltf_embed_buffers
        /\ pc = "returned" =>
              /\ disk[BinPath].exists
                    <=> (Len(export_settings.gltf_binary.data) > 0
                         /\ ~export_settings.gltf_embed_buffers)
              /\ disk[BinPath].exists =>
                    disk[BinPath].content = export_settings.gltf_binary.data

\* a binary of 3 bytes written as it is, next to the text of a tree
C13_Witness ==
    /\ SeparateMode
    /\ pc = "returned"
    /\ Len(gltf) > 0
    /\ disk[BinPath] = FileOf(<<9, 8, 7>>)
    /\ disk[MainPath].exists

(* C14: in the single-file modes, GLB and embedded, save_gltf writes the   *)
(* file at gltf_filepath and no other: no sibling file is created,         *)
(* whatever the binary of the settings.                                    *)
C14_SingleFileModesWriteOneFile ==
    export_settings.gltf_format \in {"GLB", "GLTF_EMBEDDED"} =>
        /\ ~disk[BinPath].exists
        /\ file.name \in {<<>>, MainPath}
        /\ pc = "returned" => disk[MainPath].exists

-----------------------------------------------------------------------------
(* C15: a publish request is sent only after the local file was written    *)
(* and closed; its body is the whole content of that file as read back;    *)
(* an export sends at most one request; no request is sent while the file  *)
(* is open.                                                                *)
C15_RequestAfterCloseOnce ==
    /\ Len(requests) <= 1
    /\ ~file.closed => requests = <<>>
    /\ requests # <<>> =>
          /\ file.closed
          /\ file.name = MainPath
          /\ requests[1].data = Flatten(file.writes)
          /\ requests[1].data = disk[MainPath].content
          /\ requests[1].data = data
          /\ operator = "save_gltf" => GlbMode

\* a container of two chunks, posted
C15_Witness ==
    /\ pc = "posted"
    /\ operator = "save_gltf"
    /\ Len(requests) = 1
    /\ Len(file.writes) = 11
    /\ Len(requests[1].data) > 12 + 8 + 8

-----------------------------------------------------------------------------
(* C16: when the publish step fails after the local file was written (no   *)
(* answer, a status that is not a success, an answer that is not JSON or   *)
(* has no hash), the file stays on disk as written and the call ends with  *)
(* a result of its own: not the result of a success, and not the way a     *)
(* failed export ends.                                                     *)

\* the call has ended
Ended == pc \in {"returned", "raised"}

\* the publish step was entered and did not succeed
PublishFailed ==
    \/ exc \in {"ConnectionError", "JSONDecodeError", "KeyError", "NameError"}
    \/ requests # <<>> /\ response # NoResponse
                       /\ (response.status # 200 \/ response.body # "hash")

\* how a failed export ends: the exceptions of the encoding and of the local I/O
ExportFailures == {"ValueError", "struct.error", "OSError"}

C16_PublishFailureIsDistinct ==
    (Ended /\ PublishFailed) =>
        /\ disk[MainPath] = FileOf(Flatten(file.writes))
        /\ result \notin {"True", "FINISHED"}
        /\ exc \notin ExportFailures

(* C17: the viewer URL is opened only after the endpoint answered with a   *)
(* success status and a JSON body that has the hash; it is built from that *)
(* hash and the extension of the container, glb or vrm.                    *)
C17_ViewerOnlyAfterSuccess ==
    browser # <<>> =>
        /\ response.status = 200
        /\ response.body = "hash"
        /\ browser = <<ViewerUrl(hash, IF operator = "save_gltf" THEN "glb" ELSE "vrm")>>

-----------------------------------------------------------------------------
(* C18: with gltf_format GLTF_SEPARATE or GLTF_EMBEDDED, save_gltf sends   *)
(* no request and opens no viewer URL, at any point of any run.            *)
C18_NoPublishOutsideGlb ==
    (operator = "save_gltf" /\ export_settings.gltf_format \in {"GLTF_SEPARATE", "GLTF_EMBEDDED"}) =>
        /\ requests = <<>>
        /\ browser = <<>>
        /\ response = NoResponse
        /\ data = <<>>
        /\ pc \notin {"closed", "read", "posted", "parsed", "hashed"}

\* an embedded export that has returned with its file written
C18_Witness ==
    /\ operator = "save_gltf"
    /\ export_settings.gltf_format = "GLTF_EMBEDDED"
    /\ pc = "returned"
    /\ result = "True"
    /\ disk[MainPath].exists
    /\ Len(gltf) > 0

(* C19: after a fatal error of an export (an encoding fault, or a fault    *)
(* opening or writing the destination) the destination path holds no       *)
(* partial file: it does not exist, or it holds a complete artifact (what  *)
(* was there before, the whole text, or a whole container).                *)

\* the bytes are a container whose total-length field is their number
WholeContainer(c) ==
    /\ Len(c) >= 12 + 8
    /\ SubSeq(c, 1, 4) = Encode(Chars("glTF"))
    /\ StructUnpackI(SubSeq(c, 9, 12), byteorder) = Len(c)

C19_NoPartialOutput ==
    (pc = "raised" /\ exc \in ExportFailures) =>
        \/ disk[MainPath] \in {NoFile, FileOf(OldContent)}
        \/ disk[MainPath] = FileOf(Encode(PrettyText(gltf)) \o <<10>>)
        \/ disk[MainPath].exists /\ WholeContainer(disk[MainPath].content)

-----------------------------------------------------------------------------
(* C20: a hook of an add-on that raises cannot abort the export: when a    *)
(* user-extension constructor raises, execute still goes on to the add-ons *)
(* enumerated after it, collects their hooks, and calls the exporter.      *)

\* add-on i was reached by the loop and gave every hook it has
Collected(i) ==
    LET m == addons[i]
    IN  /\ m.glTF2_pre_export_callback =>
              \E n \in 1..Len(hooks.pre_export_callbacks) : hooks.pre_export_callbacks[n] = i
        /\ m.glTF2_post_export_callback =>
              \E n \in 1..Len(hooks.post_export_callbacks) : hooks.post_export_callbacks[n] = i
        /\ m.glTF2ExportUserExtension = "ok" =>
              \E n \in 1..Len(hooks.user_extensions) :
                  hooks.user_extensions[n] = [addon |-> i, hook |-> 0]

\* execute has ended: it called the exporter, or an exception left it
ExecuteEnded == operator = "ExportGLTF2_Base.execute" /\ pc \in {"save", "raised"}

C20_HookFaultIsIsolated ==
    ExecuteEnded =>
        /\ pc = "save"
        /\ exc = "none"
        /\ \A i \in 1..Len(addons) :
              (addons[i].loaded /\ ~ConstructorRaises(addons[i])) => Collected(i)

-----------------------------------------------------------------------------
(* C21: the pre-export callback list, the post-export callback list and    *)
(* the user-extension list built by execute each list their entries in the *)
(* order in which the host enumerates the add-ons, restricted to the       *)
(* add-ons that provide that kind of hook; an add-on whose module cannot   *)
(* be looked up is skipped and adds nothing.                               *)

\* the add-ons the loop has gone through
Enumerated == 1..(hooks.next - 1)

\* the numbers of the set in rising order
Rising(S) ==
    CHOOSE q \in [1..Cardinality(S) -> S] : \A a, b \in 1..Cardinality(S) : a < b => q[a] < q[b]

\* the extension objects an add-on provides: hook 0 for its single
\* constructor, hook k for the k-th constructor of its list
Provided(i) ==
    IF ~addons[i].loaded THEN {}
    ELSE {[addon |-> i, hook |-> 0] : x \in {y \in {0} : addons[i].glTF2ExportUserExtension = "ok"}}
         \cup {[addon |-> i, hook |-> k] : k \in 1..Len(addons[i].glTF2ExportUserExtensions)}

\* entry a of the list comes from an earlier add-on than entry b, or from an
\* earlier constructor of the same add-on
Earlier(a, b) == a.addon < b.addon \/ (a.addon = b.addon /\ a.hook < b.hook)

C21_HooksInEnumerationOrder ==
    (operator = "ExportGLTF2_Base.execute" /\ pc \in {"collect", "save"}) =>
        /\ hooks.pre_export_callbacks
              = Rising({i \in Enumerated :
                           addons[i].loaded /\ addons[i].glTF2_pre_export_callback})
        /\ hooks.post_export_callbacks
              = Rising({i \in Enumerated :
                           addons[i].loaded /\ addons[i].glTF2_post_export_callback})
        /\ {hooks.user_extensions[n] : n \in 1..Len(hooks.user_extensions)}
              = UNION {Provided(i) : i \in Enumerated}
        /\ \A a, b \in 1..Len(hooks.user_extensions) :
              a < b => Earlier(hooks.user_extensions[a], hooks.user_extensions[b])
        /\ pc = "save" =>
              /\ export_settings.gltf_user_extensions = hooks.user_extensions
              /\ export_settings.pre_export_callbacks = hooks.pre_export_callbacks
              /\ export_settings.post_export_callbacks = hooks.post_export_callbacks

\* execute has gone through two add-ons that both provide every kind of hook
C21_Witness ==
    /\ operator = "ExportGLTF2_Base.execute"
    /\ pc = "save"
    /\ Len(addons) = 2
    /\ export_settings.pre_export_callbacks = <<1, 2>>
    /\ export_settings.post_export_callbacks = <<1, 2>>
    /\ export_settings.gltf_user_extensions
          = <<[addon |-> 1, hook |-> 0], [addon |-> 1, hook |-> 1],
              [addon |-> 2, hook |-> 0], [addon |-> 2, hook |-> 1]>>

-----------------------------------------------------------------------------
(* C22: for every combination of the user-facing options, the export       *)
(* settings built by execute enable no dependent option whose prerequisite *)
(* is disabled: gltf_tangents implies gltf_normals,                        *)
(* gltf_all_vertex_influences implies gltf_skins, gltf_morph_normal        *)
(* implies gltf_morph, and gltf_morph_tangent implies gltf_morph and       *)
(* gltf_morph_normal.                                                      *)

\* execute has built export_settings
SettingsBuilt == operator = "ExportGLTF2_Base.execute" /\ pc \in {"collect", "save", "raised"}

C22_DependentOptionsForcedOff ==
    SettingsBuilt =>
        /\ export_settings.gltf_tangents => export_settings.gltf_normals
        /\ export_settings.gltf_all_vertex_influences => export_settings.gltf_skins
        /\ export_settings.gltf_morph_normal => export_settings.gltf_morph
        /\ export_settings.gltf_morph_tangent =>
              export_settings.gltf_morph /\ export_settings.gltf_morph_normal

\* every dependent option is asked for and every prerequisite is off
C22_Witness ==
    /\ SettingsBuilt
    /\ pc = "save"
    /\ self.export_tangents /\ ~self.export_normals
    /\ self.export_all_influences /\ ~self.export_skins
    /\ self.export_morph_normal /\ self.export_morph_tangent /\ ~self.export_morph
    /\ ~export_settings.gltf_tangents
    /\ ~export_settings.gltf_all_vertex_influences
    /\ ~export_settings.gltf_morph_normal
    /\ ~export_settings.gltf_morph_tangent

-----------------------------------------------------------------------------
(* C23: when animation export is disabled, the export settings built by    *)
(* execute carry the frame-range, force-sampling and NLA options, each     *)
(* present and False, whatever the user asked for.                         *)

C23_AnimationOptionsInert ==
    (SettingsBuilt /\ ~self.export_animations) =>
        /\ "gltf_frame_range" \in DOMAIN export_settings
        /\ "gltf_force_sampling" \in DOMAIN export_settings
        /\ "gltf_nla_strips" \in DOMAIN export_settings
        /\ ~export_settings.gltf_frame_range
        /\ ~export_settings.gltf_force_sampling
        /\ ~export_settings.gltf_nla_strips

-----------------------------------------------------------------------------
(* C24: the export configuration is complete before any hook code runs and *)
(* is never changed afterwards: execute adds no key to export_settings     *)
(* once a user-extension constructor has been invoked, and save_gltf       *)
(* leaves export_settings, the document tree and the binary buffer         *)
(* unchanged.                                                              *)

\* save_gltf changes none of its arguments
SaveGltfKeepsArguments ==
    operator = "save_gltf" => UNCHANGED <<export_settings, gltf, glb_buffer>>

\* a user-extension constructor has been invoked and has returned
ConstructorInvoked == operator = "ExportGLTF2_Base.execute" /\ hooks.user_extensions # <<>>

\* as claimed: violated by lines 581-583
C24_NoKeyAfterConstructors ==
    [][/\ SaveGltfKeepsArguments
       /\ ConstructorInvoked => DOMAIN export_settings' = DOMAIN export_settings]_vars

HookKeys == {"gltf_user_extensions", "pre_export_callbacks", "post_export_callbacks"}

\* amended: once the settings are built, execute changes them only when it
\* calls the exporter, and then it adds the three hook lists, as they were
\* collected, and changes no other key
C24_OnlyHookListsAdded ==
    [][/\ SaveGltfKeepsArguments
       /\ (operator = "ExportGLTF2_Base.execute" /\ pc # "execute") =>
             /\ \A k \in DOMAIN export_settings :
                   k \in DOMAIN export_settings' /\ export_settings'[k] = export_settings[k]
             /\ export_settings' # export_settings =>
                   /\ pc' = "save"
                   /\ DOMAIN export_settings \cap HookKeys = {}
                   /\ DOMAIN export_settings' = DOMAIN export_settings \cup HookKeys
                   /\ export_settings'.gltf_user_extensions = hooks.user_extensions
                   /\ export_settings'.pre_export_callbacks = hooks.pre_export_callbacks
                   /\ export_settings'.post_export_callbacks = hooks.post_export_callbacks]_vars

\* execute has called the exporter after a constructor ran: the settings
\* hold the hook lists beside the keys built before
C24_Witness ==
    /\ ConstructorInvoked
    /\ pc = "save"
    /\ HookKeys \subseteq DOMAIN export_settings
    /\ export_settings.gltf_user_extensions # <<>>
    /\ export_settings.gltf_format = self.export_format

-----------------------------------------------------------------------------
(* C25: the core holds no state across calls: after any sequence of export *)
(* invocations (invoke, then execute), the hook lists an invocation uses   *)
(* and the module-level list of extension-panel functors hold only entries *)
(* discovered during that invocation, so that their contents and sizes do  *)
(* not depend on how many invocations ran before.                          *)

\* the number of the running invocation
Invocation == Len(calls)

C25_NoCrossCallState ==
    Invocation >= 1 =>
        /\ \A n \in 1..Len(extension_panel_unregister_functors) :
              extension_panel_unregister_functors[n].invocation = Invocation
        /\ Len(extension_panel_unregister_functors)
              = Cardinality({i \in 1..Len(addons) : RegistersPanel(addons[i])})
        /\ pc = "save" =>
              /\ Len(hooks.pre_export_callbacks)
                    = Cardinality({i \in 1..Len(addons) :
                                      addons[i].loaded /\ addons[i].glTF2_pre_export_callback})
              /\ Len(hooks.user_extensions)
                    = Cardinality({i \in 1..Len(addons) :
                                      addons[i].loaded
                                      /\ addons[i].glTF2ExportUserExtension = "ok"})

-----------------------------------------------------------------------------
(* C26: a document tree with a top-level key that is not in the sort_order *)
(* list of save_gltf makes save_gltf fail while it orders the keys, before *)
(* any output file is opened and before any publish request is sent; with  *)
(* any other tree, every key of the tree is exactly once in the output and *)
(* the output has no other key.                                            *)

\* the names of the list at lines 45-65
KnownSections ==
    {"asset", "extensionsUsed", "extensionsRequired", "extensions", "extras",
     "scene", "scenes", "nodes", "cameras", "animations", "materials", "meshes",
     "textures", "images", "skins", "accessors", "bufferViews", "samplers", "buffers"}

TreeHoldsUnknownKey ==
    operator = "save_gltf" /\ \E i \in 1..Len(gltf) : gltf[i][1] \notin KnownSections

\* how often the key is a top-level key of the text
Occurrences(key, text) ==
    LET keys == TopLevelKeys(text)
    IN  Cardinality({n \in 1..Len(keys) : keys[n] = key})

C26_UnknownKeyFailsElseEachKeyOnce ==
    /\ TreeHoldsUnknownKey =>
          /\ pc \in {"start", "raised"}
          /\ pc = "raised" => exc = "ValueError"
          /\ gltf_encoded = <<>>
          /\ file = NoFileObject
          /\ disk[MainPath] \in {NoFile, FileOf(OldContent)}
          /\ disk[BinPath] = NoFile
          /\ requests = <<>>
    /\ (operator = "save_gltf" /\ pc \notin {"start", "raised"}) =>
          /\ pc = "encoded" =>
                /\ \A i \in 1..Len(gltf) : Occurrences(Chars(gltf[i][1]), gltf_encoded) = 1
                /\ Len(TopLevelKeys(gltf_encoded)) = Len(gltf)
          /\ gltf_encoded = Encoded(gltf, export_settings)

\* a tree with the key thumbnail, in GLB mode, over a file of an earlier
\* export: save_gltf has raised and the file is as it was
C26_Witness ==
    /\ TreeHoldsUnknownKey
    /\ pc = "raised"
    /\ exc = "ValueError"
    /\ ~TreeHoldsNonFinite
    /\ export_settings.gltf_format = "GLB"
    /\ disk[MainPath] = FileOf(OldContent)

-----------------------------------------------------------------------------
(* C27: in GLB mode save_gltf returns True only after it has written the   *)
(* file, closed it, sent the publish request, parsed the hash and opened   *)
(* the viewer URL, in that order; when a step fails, save_gltf does not    *)
(* return True and no later step is executed.                              *)

\* the steps of the GLB branch that have completed
FileWritten == file.name = MainPath /\ WholeContainer(Flatten(file.writes))
FileClosed == FileWritten /\ file.closed /\ disk[MainPath].content = Flatten(file.writes)
RequestSent == requests # <<>> /\ response # NoResponse
HashParsed == hash # "none"
ViewerOpened == browser # <<>>

C27_TrueOnlyAfterWholeSequence ==
    (operator = "save_gltf" /\ GlbMode) =>
        /\ result = "True" => ViewerOpened /\ exc = "none"
        /\ ViewerOpened => HashParsed
        /\ HashParsed => RequestSent /\ response.body = "hash"
        /\ requests # <<>> => FileClosed
        /\ pc = "raised" =>
              /\ result = "none"
              /\ exc \in {"ValueError", "OSError"} => file.writes = <<>> /\ requests = <<>>
              /\ exc = "struct.error" => ~FileWritten /\ requests = <<>>
              /\ exc = "ConnectionError" => FileClosed /\ ~RequestSent
              /\ exc = "JSONDecodeError" => RequestSent /\ ~HashParsed
              /\ exc = "KeyError" => RequestSent /\ ~HashParsed
              /\ exc # "none"
              /\ ~ViewerOpened

\* save_gltf has returned True in GLB mode after an answer with a hash
C27_Witness ==
    /\ operator = "save_gltf"
    /\ GlbMode
    /\ pc = "returned"
    /\ result = "True"
    /\ Len(requests) = 1
    /\ response.status = 200
    /\ browser = <<ViewerUrl("Qm", "glb")>>
    /\ glb_buffer # Bytes(<<>>)

-----------------------------------------------------------------------------
(* C28: ExportVRM.execute returns CANCELLED, without creating or changing  *)
(* a file and without sending a publish request, when the file path is     *)
(* empty, when the construction of GlbObj raises ValidationError, or when  *)
(* convert_bpy2glb returns None; it returns FINISHED only after the file   *)
(* holds exactly the converted bytes and the publish step has completed.   *)

\* one of the three cases of the claim
MustCancel ==
    \/ vrm.filepath = <<>>
    \/ vrm.glb_obj = "ValidationError"
    \/ vrm.vrm_bin = <<>>

C28_VrmCancelledTouchesNothing ==
    operator = "ExportVRM.execute" =>
        /\ MustCancel =>
              /\ pc \in {"vrm_start", "returned"}
              /\ pc = "returned" => result = "CANCELLED"
              /\ exc = "none"
              /\ file = NoFileObject
              /\ \A p \in Paths : disk[p] \in {NoFile, FileOf(OldContent)}
              /\ requests = <<>>
              /\ browser = <<>>
        /\ result = "CANCELLED" => MustCancel
        /\ result = "FINISHED" =>
              /\ disk[vrm.filepath] = FileOf(vrm.vrm_bin[1])
              /\ file.closed
              /\ Len(requests) = 1
              /\ requests[1].data = vrm.vrm_bin[1]
              /\ browser # <<>>
        /\ result \in {"none", "CANCELLED", "FINISHED"}

\* GlbObj raised ValidationError for a path that holds an earlier export:
\* CANCELLED, and the file is as it was
C28_Witness ==
    /\ operator = "ExportVRM.execute"
    /\ pc = "returned"
    /\ result = "CANCELLED"
    /\ vrm.filepath = MainPath
    /\ vrm.glb_obj = "ValidationError"
    /\ vrm.vrm_bin # <<>>
    /\ disk[MainPath] = FileOf(OldContent)
    /\ requests = <<>>

-----------------------------------------------------------------------------
(* C29: for a file path whose base name is not empty, check leaves a path  *)
(* whose extension is, whatever its case, '.glb' for the format GLB and    *)
(* '.gltf' for the others; what stands before the extension is unchanged;  *)
(* check returns True exactly when it changed the path; a second call      *)
(* changes nothing and returns False.                                      *)

\* the name behind the last '/' of the path
LastName(path) ==
    LET slashes == {i \in 1..Len(path) : path[i] = "/"}
    IN  SubSeq(path, IF slashes = {} THEN 1
                     ELSE 1 + CHOOSE i \in slashes : \A j \in slashes : j <= i,
               Len(path))

\* where the extension of the path starts: at the last dot of its name, or
\* behind the path when the name has no dot
ExtensionStart(path) ==
    LET first == Len(path) - Len(LastName(path)) + 1
        dots == {i \in first..Len(path) : path[i] = "."}
    IN  IF dots = {} THEN Len(path) + 1 ELSE CHOOSE i \in dots : \A j \in dots : j <= i

Extension(path) == SubSeq(path, ExtensionStart(path), Len(path))
BeforeExtension(path) == SubSeq(path, 1, ExtensionStart(path) - 1)

\* the string without regard to case
Caseless(str) ==
    [i \in 1..Len(str) |->
        CASE str[i] = "G" -> "g" [] str[i] = "L" -> "l" [] str[i] = "B" -> "b"
          [] str[i] = "T" -> "t" [] str[i] = "F" -> "f" [] OTHER -> str[i]]

\* a name of dots only, or no name: what stands before the extension of a
\* hidden file; such a file keeps its dots, with the extension replaced or
\* the new one added behind it
OnlyDots(name) == \A i \in 1..Len(name) : name[i] = "."

C29_CheckNormalisesExtension ==
    \A n \in 1..Len(calls) :
        LET c == calls[n]
            desired == IF self.export_format = "GLB" THEN <<".", "g", "l", "b">>
                       ELSE <<".", "g", "l", "t", "f">>
            known == Caseless(Extension(c.given)) \in
                        {<<".", "g", "l", "b">>, <<".", "g", "l", "t", "f">>}
            kept == IF ~known THEN {c.given}
                    ELSE IF OnlyDots(LastName(BeforeExtension(c.given)))
                    THEN {c.given, BeforeExtension(c.given)}
                    ELSE {BeforeExtension(c.given)}
        IN  /\ c.method = "check"
            /\ LastName(c.given) # <<>> =>
                  /\ Caseless(Extension(c.left)) = desired
                  /\ BeforeExtension(c.left) \in kept
            /\ c.gave = (IF c.left # c.given THEN "True" ELSE "False")
            /\ n > 1 => c.given = calls[n - 1].left /\ c.left = c.given /\ c.gave = "False"
            /\ n = Len(calls) => self.filepath = c.left /\ result = c.gave

-----------------------------------------------------------------------------
(* C30: in an import of several files, import_gltf2 attempts every listed  *)
(* file in order, even after an earlier file failed, and returns FINISHED  *)
(* if and only if the unit_import of at least one file returned FINISHED;  *)
(* it returns CANCELLED only when every file failed.                       *)

MultiFileImport == operator = "ImportGLTF2.import_gltf2" /\ imp.files # <<>>

\* import_gltf2 has ended: it returned, or an exception left it
ImportEnded == pc \in {"returned", "raised"}

\* the files are attempted in the order of the list, each once
AttemptedInOrder == \A n \in 1..Len(calls) : calls[n].file = n

SomeFileFinished == \E n \in 1..Len(imp.files) : imp.files[n] = "FINISHED"

\* as claimed: a file that failed, however it failed, does not keep the
\* later files from being attempted
C30_EveryFileAttempted ==
    MultiFileImport =>
        /\ AttemptedInOrder
        /\ ImportEnded =>
              /\ Len(calls) = Len(imp.files)
              /\ result = (IF SomeFileFinished THEN "FINISHED" ELSE "CANCELLED")

\* as amended: a file is attempted when every file before it was imported
\* or raised ImportError; another exception leaves import_gltf2 at that
\* file, with no result
C30_EveryFileAttemptedAfterImportErrors ==
    MultiFileImport =>
        /\ AttemptedInOrder
        /\ \A n \in 1..Len(calls) : \A k \in 1..(n - 1) : imp.files[k] # "Exception"
        /\ pc = "returned" =>
              /\ Len(calls) = Len(imp.files)
              /\ \A n \in 1..Len(imp.files) : imp.files[n] # "Exception"
              /\ result = (IF SomeFileFinished THEN "FINISHED" ELSE "CANCELLED")
        /\ pc = "raised" =>
              /\ exc = "Exception"
              /\ imp.files[Len(calls)] = "Exception"
              /\ result = "none"
        /\ (pc = "files" /\ imp.next <= Len(imp.files)) => Len(calls) = imp.next - 1

\* the first and the last of three files raise ImportError, the second is
\* imported: all three were attempted and the import is FINISHED
C30_Witness ==
    /\ MultiFileImport
    /\ pc = "returned"
    /\ imp.files = <<"ImportError", "FINISHED", "ImportError">>
    /\ Len(calls) = 3
    /\ result = "FINISHED"

====
